---- MODULE Spec2Model ----
(***************************************************************************)
(* EasyDelState (lib/python/EasyDel/etils/easystate.py): the training      *)
(* state value, its constructors (create, load, load_state) and its value  *)
(* transitions (apply_gradients, free_opt_state, init_opt_state,           *)
(* shard_params, save_state), driven by one caller that holds the current  *)
(* state value.                                                            *)
(*                                                                         *)
(* Representation.                                                         *)
(*   - An optional value is a sequence of length 0 (Python None) or 1.     *)
(*   - A text is a sequence of tokens; the separator "_is_" is one token,  *)
(*     so "model_type_is_llama" is <<"model_type", "_is_", "llama">>.      *)
(*   - A Python dict is the sequence of its entries [k, v] in insertion    *)
(*     order; a value is [t |-> its Python type, x |-> its str() text].    *)
(*   - A parameter tree is flattened: a function from key paths to leaf    *)
(*     values; leaf arithmetic is modulo ValMod.                           *)
(*   - save_state is modelled with gather_fns = None and float_dtype =     *)
(*     None, load_state with state_shard_fns = None (their defaults).      *)
(***************************************************************************)
EXTENDS Integers, Sequences, FiniteSets, TLC

VARIABLES
    st,          \* the state value the caller holds (optional)
    self_after,  \* the object the last operation was called on, as it is after the call
    op,          \* the last operation called
    err,         \* the exception the last operation raised, or "none"
    calls,       \* how often the last operation called tx.init and tx.update
    grads_in,    \* the gradient tree handed to the last apply_gradients
    n_applied,   \* apply_gradients calls that returned, since the constructor returned
    origin,      \* the constructor the current state value descends from: "create",
                 \* "load" or "load_state"
    disk,        \* the checkpoint file the last save_state wrote (optional), followed
                 \* while the caller loads it and initialises optimizer state
    shard_src,   \* where the last shard_params took its shard functions from
    call_args,   \* the arguments of the last create, load or shard_params (optional)
    last_model_type, \* what get_model_type returned to the last load_state (optional)
    inputs_after,    \* the tx_init and module_config handed to the last create, as
                     \* they are after the call (optional)
    \* safe_dict / unsafe_dict on one mapping
    dictionary_in,   \* the mapping as the caller built it
    dictionary,      \* the mapping as the calls so far have left or returned it
    dict_ops,        \* the calls made on it, in order
    \* one run of VisionCausalLanguageModelTrainer.train / eval
    pc,              \* where the run is
    arguments,       \* the trainer's configuration and the arguments of train
    sharded_state,   \* the local sharded_state of train (optional)
    current_step,    \* the local current_step of train
    epoch,           \* the epoch the loop is in
    batch_index,     \* batches of dataloader_train consumed in this epoch
    filename,        \* the local filename of train (optional: unbound until assigned)
    information_queries, \* the local information_queries of train (optional: unbound)
    ended,           \* how the training loop ended
    train_err,       \* the exception that left train or eval, or "none"
    running_sums,    \* the local vision_accuracy_sum of train and its like: "None",
                     \* "float" (a tolist() value) or "Array"
    steps_run,       \* the train steps invoked: current_step and the state returned
    saves,           \* the checkpoints written, in order
    eval_records,    \* the metric records eval has yielded, in order
    eval_calls,      \* how often train has called eval
    eval_step,       \* the local current_step of eval
    eval_ended,      \* how the metric sequence of eval ended
    eval_loss_sum,   \* the local loss_sum of eval
    loss_sum,        \* the local loss_sum of train
    mean_loss,       \* the mean_loss train computed last, as sum and divisor
    mesh_depth,      \* how many times the mesh context is entered
    sharded_ops,     \* the sharded operations done, each with the mesh depth it ran at
    output           \* the TrainerOutput returned (optional)

state_vars == <<st, self_after, op, err, calls, grads_in, n_applied, origin, disk, shard_src,
               call_args, last_model_type, inputs_after>>
dict_vars == <<dictionary_in, dictionary, dict_ops>>
trainer_vars == <<pc, arguments, sharded_state, current_step, epoch, batch_index, filename,
                 information_queries, ended, train_err, running_sums, steps_run, saves,
                 eval_records, eval_calls, eval_step, output, eval_ended, eval_loss_sum,
                 loss_sum, mean_loss, mesh_depth, sharded_ops>>
vars == <<state_vars, dict_vars, trainer_vars>>

\* ------------------------------------------------------------------ bounds

MaxStep == 3
ValMod == 3
MaxGrad == 1
MaxDictLen == 2
MaxDictOps == 2
\* num_train_epochs
MaxEpochs == 2
\* batches in dataloader_train and in dataloader_eval
MaxBatches == 2
\* max_training_steps
MaxTrainingSteps == 3

\* ------------------------------------------------------- optional values

None == <<>>
Some(v) == <<v>>
Get(o) == o[1]

SetMax(S) == CHOOSE m \in S : \A n \in S : n <= m

\* ------------------------------------------------------------------ texts

IS == "_is_"
ModelTypePrefix == <<"model_type", IS>>

StartsWith(s, p) == Len(s) >= Len(p) /\ SubSeq(s, 1, Len(p)) = p

Occurrences(s, sep) ==
    {i \in 1..(Len(s) - Len(sep) + 1) : SubSeq(s, i, i + Len(sep) - 1) = sep}

\* s.split(sep)[-1]
SplitLast(s, sep) ==
    IF Occurrences(s, sep) = {} THEN s
    ELSE SubSeq(s, SetMax(Occurrences(s, sep)) + Len(sep), Len(s))

\* ------------------------------------------------------------------ dicts

IntV(text) == [t |-> "int", x |-> <<text>>]
StrV(text) == [t |-> "str", x |-> text]
FloatV(text) == [t |-> "float", x |-> <<text>>]
One == IntV("1")

Entry(k, v) == [k |-> k, v |-> v]
Keys(d) == {d[i].k : i \in 1..Len(d)}
KeyList(d) == [i \in 1..Len(d) |-> d[i].k]
HasKey(d, k) == k \in Keys(d)
DictGet(d, k, default) ==
    IF HasKey(d, k) THEN (CHOOSE e \in {d[i] : i \in 1..Len(d)} : e.k = k).v ELSE default
DictPop(d, k) == SelectSeq(d, LAMBDA e : e.k # k)
DictSet(d, k, v) ==
    IF HasKey(d, k)
    THEN [i \in 1..Len(d) |-> IF d[i].k = k THEN Entry(k, v) ELSE d[i]]
    ELSE Append(d, Entry(k, v))

\* isinstance(val, (int, bool))
IsIntOrBool(v) == v.t \in {"int", "bool"}

\* f"{k}_is_{val}"
EncodedKey(k, v) == k \o <<IS>> \o v.x

\* ------------------------------------------------------- parameter trees

OVERWRITE_WITH_GRADIENT == "_overwrite_with_gradient"

Topology(t) == DOMAIN t
TopKeys(t) == {p[1] : p \in {q \in DOMAIN t : Len(q) > 0}}
\* t[k]
Subtree(t, k) ==
    [p \in {Tail(q) : q \in {r \in DOMAIN t : Len(r) > 0 /\ r[1] = k}} |-> t[<<k>> \o p]]
\* {k: sub}
Under(k, sub) == [p \in {<<k>> \o q : q \in DOMAIN sub} |-> sub[Tail(p)]]
\* the dict with the entries of both
Merge(a, b) == [p \in (DOMAIN a) \cup (DOMAIN b) |-> IF p \in DOMAIN a THEN a[p] ELSE b[p]]
Zeros(t) == [p \in DOMAIN t |-> 0]

\* ------------------------------------------------ gradient transformations
\* The optimizer is the injected optax.GradientTransformation: init(params) and
\* update(grads, opt_state, params) are all the state uses of it.

TxKinds == {"adamw", "lion"}
TxFields(tx) == IF tx = "adamw" THEN {"count", "mu", "nu"} ELSE {"count", "mu"}

\* tx.init(params)
TxInit(tx, p) ==
    IF tx = "adamw"
    THEN [count |-> 0, mu |-> Zeros(p), nu |-> Zeros(p)]
    ELSE [count |-> 0, mu |-> Zeros(p)]

\* tx.update raises unless opt_state is a state of tx over the topology of grads
\* (and, for the weight decay of adamw, of params)
TxUpdateFails(tx, g, s, p) ==
    \/ s = None
    \/ DOMAIN Get(s) # TxFields(tx)
    \/ Topology(Get(s).mu) # Topology(g)
    \/ tx = "adamw" /\ Topology(p) # Topology(g)

\* updates, new_opt_state = tx.update(grads, opt_state, params)
TxUpdate(tx, g, s, p) ==
    LET mu == [q \in DOMAIN g |-> (s.mu[q] + g[q]) % ValMod]
    IN IF tx = "adamw"
       THEN LET nu == [q \in DOMAIN g |-> (s.nu[q] + g[q] * g[q]) % ValMod]
            IN [updates |-> [q \in DOMAIN g |-> (3 * ValMod - mu[q] - nu[q] - p[q]) % ValMod],
                state |-> [count |-> s.count + 1, mu |-> mu, nu |-> nu]]
       ELSE [updates |-> [q \in DOMAIN g |-> (ValMod - mu[q]) % ValMod],
             state |-> [count |-> s.count + 1, mu |-> mu]]

\* optax.apply_updates(params, updates)
ApplyUpdates(p, u) == [q \in DOMAIN p |-> (p[q] + u[q]) % ValMod]

\* --------------------------------------------------------- EasyDelState
\* An operation returns [err, ret, self, init, update]: the exception raised or
\* "none", the state value returned, the object it was called on as the call leaves
\* it, and the number of tx.init and tx.update calls it made.

Result(e, ret, self, ni, nu) == [err |-> e, ret |-> ret, self |-> self, init |-> ni, update |-> nu]
Raised(e, self, ni, nu) == Result(e, self, self, ni, nu)

\* a replace that would write the changes into self
ReplaceInPlace(self, new) == [ret |-> new, self |-> new]
\* self.replace(**changes): a new object; self keeps its fields
Replace(self, new) == [ret |-> new, self |-> self]

Returned(r, ni, nu) == Result("none", r.ret, r.self, ni, nu)

\* the whole tree, whatever groups it holds
ParamsWithOptAll(params) == params
\* params['params'] if OVERWRITE_WITH_GRADIENT in params else params
ParamsWithOpt(params) ==
    IF OVERWRITE_WITH_GRADIENT \in TopKeys(params) THEN Subtree(params, "params") ELSE params

\* an update that would leave the step counter alone
StepUnchanged(self) == self.step
\* step=self.step + 1
StepAfterApply(self) == self.step + 1

\* two calls of tx.update in a row
UpdateTwice(tx, g, s, p) ==
    LET u == TxUpdate(tx, g, TxUpdate(tx, g, s, p).state, p)
    IN [updates |-> u.updates, state |-> u.state, n |-> 2]
\* updates, new_opt_state = self.tx.update(grads_with_opt, self.opt_state, params_with_opt)
UpdateOnce(tx, g, s, p) ==
    LET u == TxUpdate(tx, g, s, p)
    IN [updates |-> u.updates, state |-> u.state, n |-> 1]

\* a test of the parameters for the overwrite-with-gradient group
OverwriteInParams(self, grads) == OVERWRITE_WITH_GRADIENT \in TopKeys(self.params)
\* if OVERWRITE_WITH_GRADIENT in grads
OverwriteInGrads(self, grads) == OVERWRITE_WITH_GRADIENT \in TopKeys(grads)

\* grads_with_opt and params_with_opt: the two trees handed to tx.update
UpdateArgs(self, grads) ==
    IF OverwriteInGrads(self, grads)
    THEN [grads_with_opt |-> Subtree(grads, "params"),
          params_with_opt |-> Subtree(self.params, "params")]
    ELSE [grads_with_opt |-> grads, params_with_opt |-> self.params]

ApplyGradients(self, grads) ==
    LET owg == OverwriteInGrads(self, grads)
        grads_with_opt == UpdateArgs(self, grads).grads_with_opt
        params_with_opt == UpdateArgs(self, grads).params_with_opt
    IN IF owg /\ "params" \notin TopKeys(grads) \cap TopKeys(self.params)
       THEN Raised("KeyError", self, 0, 0)
       ELSE IF TxUpdateFails(self.tx, grads_with_opt, self.opt_state, params_with_opt)
       THEN Raised(IF self.opt_state = None THEN "TypeError" ELSE "ValueError", self, 0, 1)
       ELSE LET u == UpdateOnce(self.tx, grads_with_opt, Get(self.opt_state), params_with_opt)
            IN IF Topology(params_with_opt) # Topology(u.updates)
               THEN Raised("ValueError", self, 0, u.n)
               ELSE LET new_params_with_opt == ApplyUpdates(params_with_opt, u.updates)
                        new_params ==
                            IF owg
                            THEN Merge(Under("params", new_params_with_opt),
                                       Under(OVERWRITE_WITH_GRADIENT,
                                             Subtree(grads, OVERWRITE_WITH_GRADIENT)))
                            ELSE new_params_with_opt
                    IN Returned(Replace(self, [self EXCEPT !.step = StepAfterApply(self),
                                                           !.params = new_params,
                                                           !.opt_state = Some(u.state)]), 0, u.n)

FreeOptState(self) == Returned(Replace(self, [self EXCEPT !.opt_state = None]), 0, 0)

\* an init_opt_state without the test for an existing opt_state
InitOptStateAlways(self) ==
    Returned(Replace(self, [self EXCEPT
        !.opt_state = Some(TxInit(self.tx, ParamsWithOpt(self.params)))]), 1, 0)
InitOptState(self) ==
    IF self.opt_state = None
    THEN Returned(Replace(self, [self EXCEPT
             !.opt_state = Some(TxInit(self.tx, ParamsWithOpt(self.params)))]), 1, 0)
    ELSE Result("none", self, self, 0, 0)

\* for k in list(d.keys()): val = d.get(k)
\*     if not isinstance(val, (int, bool)): val = d.pop(k); d[f"{k}_is_{val}"] = 1
RECURSIVE SafeDictLoop(_, _)
SafeDictLoop(keys, d) ==
    IF keys = <<>> THEN d
    ELSE LET k == Head(keys)
             val == DictGet(d, k, [t |-> "NoneType", x |-> <<"None">>])
         IN IF IsIntOrBool(val)
            THEN SafeDictLoop(Tail(keys), d)
            ELSE SafeDictLoop(Tail(keys), DictSet(DictPop(d, k), EncodedKey(k, val), One))

SafeDict(d) == SafeDictLoop(KeyList(d), d)

\* for k in list(dictionary.keys()):
\*     try: key, val = k.split("_is_"); result[key] = val
\*     except: ...
\* the unpacking succeeds for exactly two parts; val is the text after the separator
RECURSIVE UnsafeDictLoop(_, _)
UnsafeDictLoop(keys, result) ==
    IF keys = <<>> THEN result
    ELSE LET k == Head(keys)
             at == Occurrences(k, <<IS>>)
         IN IF Cardinality(at) = 1
            THEN LET i == CHOOSE j \in at : TRUE
                 IN UnsafeDictLoop(Tail(keys),
                                   DictSet(result, SubSeq(k, 1, i - 1),
                                           StrV(SubSeq(k, i + 1, Len(k)))))
            ELSE UnsafeDictLoop(Tail(keys), result)

UnsafeDict(d) == UnsafeDictLoop(KeyList(d), <<>>)

\* the loop of create over module_config.__dict__: every attribute that is not an
\* int or bool is popped and hyperparameters[f"{k}_is_{val}"] = 1; with
\* hyperparameters None the assignment raises TypeError
RECURSIVE ConfigLoop(_, _, _)
ConfigLoop(keys, cfg, hyp) ==
    IF keys = <<>> THEN [err |-> "none", cfg |-> cfg, hyp |-> hyp]
    ELSE LET k == Head(keys)
             val == DictGet(cfg, k, [t |-> "NoneType", x |-> <<"None">>])
         IN IF IsIntOrBool(val)
            THEN ConfigLoop(Tail(keys), cfg, hyp)
            ELSE IF hyp = None
            THEN [err |-> "TypeError", cfg |-> DictPop(cfg, k), hyp |-> hyp]
            ELSE ConfigLoop(Tail(keys), DictPop(cfg, k),
                            Some(DictSet(Get(hyp), EncodedKey(k, val), One)))

\* {k: v for k, v in module_config_args.items()
\*  if isinstance(v, (int, float, list, tuple, bool, dict))}
FilterConfigArgs(module_config_args) ==
    SelectSeq(module_config_args, LAMBDA e : e.v.t \in {"int", "float", "list", "tuple", "bool", "dict"})

\* step=0
CreateStep == 0

\* EasyDelState.create(apply_fn, params, tx, tx_init, hyperparameters, module,
\*                     module_config, module_config_args)
Create(a) ==
    IF OVERWRITE_WITH_GRADIENT \in TopKeys(a.params) /\ "params" \notin TopKeys(a.params)
    THEN [err |-> "KeyError", init |-> 0, update |-> 0]
    ELSE LET opt_state == TxInit(a.tx, ParamsWithOpt(a.params))
             module_config_args ==
                 IF a.module_config_args # None
                 THEN Some(FilterConfigArgs(Get(a.module_config_args)))
                 ELSE None
             c == IF a.module_config # None
                  THEN ConfigLoop(KeyList(Get(a.module_config)), Get(a.module_config),
                                  a.hyperparameters)
                  ELSE [err |-> "none", cfg |-> <<>>, hyp |-> a.hyperparameters]
             tx_init == IF a.tx_init # None THEN Some(SafeDict(Get(a.tx_init))) ELSE None
         IN IF c.err # "none"
            THEN [err |-> c.err, init |-> 1, update |-> 0]
            ELSE [err |-> "none", init |-> 1, update |-> 0,
                  ret |-> [step |-> CreateStep,
                           apply_fn |-> a.apply_fn,
                           module |-> a.module,
                           params |-> a.params,
                           tx |-> a.tx,
                           opt_state |-> Some(opt_state),
                           tx_init |-> tx_init,
                           hyperparameters |-> c.hyp,
                           module_config |->
                               IF a.module_config # None THEN Some(c.cfg) ELSE None,
                           module_config_args |-> module_config_args]]

\* get_optimizer_and_scheduler(**tx_init) of etils/auto_tx.py: the gradient
\* transformation for tx_init["optimizer"]
GetOptimizerAndScheduler(tx_init) ==
    IF DictGet(tx_init, <<"optimizer">>, StrV(<<"adamw">>)).x = <<"lion">>
    THEN "lion" ELSE "adamw"

DefaultOptimizer == StrV(<<"adamw">>)
DefaultScheduler == StrV(<<"none">>)
DefaultSteps == FloatV("1000000.0")

\* a load that would keep tx_init as supplied
LoadTxInitNoDefaults(tx_init) == IF tx_init = None THEN <<>> ELSE Get(tx_init)
\* if tx_init is None: tx_init = {}
\* optimizer = tx_init.pop("optimizer", "adamw") ... tx_init["steps"] = steps
LoadTxInit(tx_init) ==
    LET d0 == IF tx_init = None THEN <<>> ELSE Get(tx_init)
        optimizer == DictGet(d0, <<"optimizer">>, DefaultOptimizer)
        d1 == DictPop(d0, <<"optimizer">>)
        scheduler == DictGet(d1, <<"scheduler">>, DefaultScheduler)
        d2 == DictPop(d1, <<"scheduler">>)
        steps == DictGet(d2, <<"steps">>, DefaultSteps)
        d3 == DictPop(d2, <<"steps">>)
    IN DictSet(DictSet(DictSet(d3, <<"optimizer">>, optimizer),
                       <<"scheduler">>, scheduler), <<"steps">>, steps)

\* a load that would initialise an absent opt_state
LoadOptStateInit(a, tx) ==
    IF a.opt_state = None THEN Some(TxInit(tx, ParamsWithOpt(a.params))) ELSE a.opt_state
\* opt_state=opt_state
LoadOptState(a, tx) == a.opt_state

\* EasyDelState.load(step, apply_fn, params, opt_state, tx_init, hyperparameters,
\*                   module, module_config, module_config_args)
Load(a) ==
    LET tx_init == LoadTxInit(a.tx_init)
        tx == GetOptimizerAndScheduler(tx_init)
    IN [err |-> "none", init |-> 0, update |-> 0,
        ret |-> [step |-> a.step,
                 apply_fn |-> a.apply_fn,
                 params |-> a.params,
                 tx |-> tx,
                 opt_state |-> LoadOptState(a, tx),
                 tx_init |-> Some(tx_init),
                 hyperparameters |-> a.hyperparameters,
                 module |-> a.module,
                 module_config |-> a.module_config,
                 module_config_args |-> a.module_config_args]]

\* a discovery that would fall back to a default architecture
GetModelTypeDefault(hyperparameters) == Some(<<"llama">>)
\* model_type = None
\* for k, _ in hyperparameters.items():
\*     if k.startswith("model_type_is_"): model_type = k.split("model_type_is_")[-1]
RECURSIVE GetModelTypeLoop(_, _)
GetModelTypeLoop(keys, model_type) ==
    IF keys = <<>> THEN model_type
    ELSE GetModelTypeLoop(Tail(keys),
                          IF StartsWith(Head(keys), ModelTypePrefix)
                          THEN Some(SplitLast(Head(keys), ModelTypePrefix))
                          ELSE model_type)

\* EasyDelState.get_model_type(hyperparameters), hyperparameters a dict
GetModelType(hyperparameters) == GetModelTypeLoop(KeyList(hyperparameters), None)

\* get_modules_by_type(model_type) of modules/auto_easydel_model.py resolves the
\* architectures it knows and fails with a lookup error for any other model type
KnownModelTypes == {<<"llama">>, <<"mistral">>}
GetModulesByTypeFails(model_type) == model_type = None \/ Get(model_type) \notin KnownModelTypes

\* the fields of EasyDelState that are pytree nodes: what a checkpoint holds
ToStateDict(state) ==
    [step |-> state.step,
     module_config_args |-> state.module_config_args,
     params |-> state.params,
     opt_state |-> state.opt_state,
     tx_init |-> state.tx_init,
     hyperparameters |-> state.hyperparameters]

\* fjformer.CheckpointManager.save_state_to_file / load_checkpoint: the Checkpoint
\* Store, which returns the tree it was given
SaveStateToFile(state) == ToStateDict(state)
LoadCheckpoint(file) == file

\* a save_state that would ignore save_optimizer
SaveStateKeepOptimizer(self, save_optimizer) ==
    [err |-> "none", ret |-> self, self |-> self, init |-> 0, update |-> 0,
     file |-> SaveStateToFile(self)]
\* EasyDelState.save_state(filename, save_optimizer)
SaveState(self, save_optimizer) ==
    LET state == IF ~save_optimizer
                 THEN Replace(self, [self EXCEPT !.opt_state = None])
                 ELSE [ret |-> self, self |-> self]
    IN [err |-> "none", ret |-> self, self |-> state.self, init |-> 0, update |-> 0,
        file |-> SaveStateToFile(state.ret)]

\* EasyDelState.load_state(checkpoint_path, init_optimizer_state)
LoadState(file, init_optimizer_state) ==
    LET checkpoint == LoadCheckpoint(file)
        hyperparameters == checkpoint.hyperparameters
    IN IF hyperparameters = None
       THEN [err |-> "AttributeError", init |-> 0, update |-> 0, model_type |-> None]
       ELSE LET model_type == GetModelType(Get(hyperparameters))
            IN IF GetModulesByTypeFails(model_type)
               THEN [err |-> "LookupError", init |-> 0, update |-> 0, model_type |-> model_type]
               ELSE IF "module_config_args" \notin DOMAIN checkpoint
               THEN \* if checkpoint["module_config_args"] is not None
                    [err |-> "KeyError", init |-> 0, update |-> 0, model_type |-> model_type]
               ELSE LET module_config ==
                            IF checkpoint.module_config_args # None
                            THEN checkpoint.module_config_args
                            ELSE None
                        loaded == Load([step |-> checkpoint.step,
                                        apply_fn |-> "module.__call__",
                                        params |-> checkpoint.params,
                                        opt_state |-> checkpoint.opt_state,
                                        tx_init |-> checkpoint.tx_init,
                                        hyperparameters |-> checkpoint.hyperparameters,
                                        module |-> model_type,
                                        module_config |-> module_config,
                                        module_config_args |-> checkpoint.module_config_args])
                        state == Replace(loaded.ret,
                                         [loaded.ret EXCEPT !.module_config_args = None]).ret
                    IN IF init_optimizer_state
                       THEN LET r == InitOptState(state)
                            IN [err |-> "none", init |-> r.init, update |-> 0, ret |-> r.ret,
                                model_type |-> model_type]
                       ELSE [err |-> "none", init |-> 0, update |-> 0, ret |-> state,
                             model_type |-> model_type]

\* a from_pretrained without the test of its two flags
NoConflictingFlags(free_optimizer_state, init_optimizer_state) == FALSE
\* if free_optimizer_state and init_optimizer_state
ConflictingFlags(free_optimizer_state, init_optimizer_state) ==
    free_optimizer_state /\ init_optimizer_state

\* steps = tx_init.get("steps", 1e9)
DefaultPretrainedSteps == FloatV("1000000000.0")

\* if init_optimizer_state: state = state.init_opt_state()
InitIfAsked(state, init_optimizer_state) ==
    IF init_optimizer_state THEN InitOptState(state) ELSE Result("none", state, state, 0, 0)

\* if free_optimizer_state: state = state.free_opt_state()
FreeIfAsked(state, free_optimizer_state) ==
    IF free_optimizer_state THEN FreeOptState(state).ret ELSE state

\* the end of from_pretrained, from what load_state and init_opt_state did
PretrainedResult(loaded, initialised, a) ==
    [err |-> "none", init |-> loaded.init + initialised.init, update |-> 0, fetch |-> 1,
     ret |-> FreeIfAsked(initialised.ret, a.free_optimizer_state)]

\* from_pretrained below its load_state
OptStateAsAsked(loaded, a) ==
    IF loaded.err # "none"
    THEN [err |-> loaded.err, init |-> loaded.init, update |-> 0, fetch |-> 1]
    ELSE PretrainedResult(loaded, InitIfAsked(loaded.ret, a.init_optimizer_state), a)

\* EasyDelState.from_pretrained(pretrained_model_name_or_path, filename, optimizer,
\*     scheduler, tx_init, init_optimizer_state, free_optimizer_state); a.hub is the
\* checkpoint file the repository holds under filename; fetch counts the models and
\* files loaded or downloaded
FromPretrained(a) ==
    IF ConflictingFlags(a.free_optimizer_state, a.init_optimizer_state)
    THEN [err |-> "EasyDelRuntimeError", init |-> 0, update |-> 0, fetch |-> 0]
    ELSE IF a.filename = None
    THEN \* model, params = AutoEasyDelModelForCausalLM.from_pretrained(...)
         LET d0 == IF a.tx_init = None THEN <<>> ELSE Get(a.tx_init)
             tx_init == DictSet(d0, <<"steps">>, DictGet(d0, <<"steps">>, DefaultPretrainedSteps))
         IN IF ~HasKey(tx_init, <<"optimizer">>) \/ ~HasKey(tx_init, <<"scheduler">>)
            THEN \* tx_init.pop("optimizer"), tx_init.pop("scheduler")
                 [err |-> "KeyError", init |-> 0, update |-> 0, fetch |-> 1]
            ELSE \* cls.load(..., tx=...): load takes tx in **kwargs and hands it to
                 \* cls(..., tx=tx, **kwargs) next to its own tx
                 [err |-> "TypeError", init |-> 0, update |-> 0, fetch |-> 1]
    ELSE \* checkpoint_path = hf_hub_download(...); state = cls.load_state(...)
         OptStateAsAsked(LoadState(a.hub, a.init_optimizer_state), a)

\* a test that would reject every number of sources other than one
NotOneShardSource(shard_fns, module_config, rules) ==
    Cardinality({i \in 1..3 : <<shard_fns, module_config, rules>>[i] # None}) # 1
\* if shard_fns is None and self.module_config is None and rules is None
NoShardSource(shard_fns, module_config, rules) ==
    shard_fns = None /\ module_config = None /\ rules = None

\* EasyDelState.shard_params(shard_fns, mesh, rules); a shard function places a
\* leaf and keeps its value
ShardParams(self, shard_fns, rules, mesh) ==
    IF NoShardSource(shard_fns, self.module_config, rules)
    THEN [err |-> "EasyDelRuntimeError", ret |-> self, self |-> self, src |-> "none"]
    ELSE LET derive == (shard_fns = None /\ rules # None) \/ self.module_config # None
             src == IF ~derive THEN "shard_fns"
                    ELSE IF rules # None THEN "rules" ELSE "module_config"
         IN IF mesh = None /\ self.module_config = None
            THEN [err |-> "AttributeError", ret |-> self, self |-> self, src |-> src]
            ELSE LET r == Replace(self, [self EXCEPT !.params = [q \in DOMAIN self.params |->
                                                                     self.params[q]]])
                 IN [err |-> "none", ret |-> r.ret, self |-> r.self, src |-> src]

\* ------------------------------------------------------------ step functions

\* (loss__, metrics), grad = grad_fn(state.params): the gradient has the topology
\* of the parameters; the batch decides its values
GradOf(params, batch) == [q \in DOMAIN params |-> batch]

\* vision_casual_language_model_train_step(state, batch)
TrainStepFn(state, batch) == ApplyGradients(state, GradOf(state.params, batch))

\* vision_casual_language_model_evaluation_step(state, batch): loss and metrics only
EvalStepFn(state, batch) == Result("none", state, state, 0, 0)

\* ------------------------------------------------------------------ inputs

FlatParams == (<<"w">> :> 1) @@ (<<"b">> :> 2)
NestedParams == (<<"params", "w">> :> 1) @@ (<<"params", "b">> :> 2)
Fp8Params == (<<"params", "w">> :> 1) @@ (<<OVERWRITE_WITH_GRADIENT, "scale">> :> 0)
ParamTrees == {FlatParams, NestedParams, Fp8Params}

ModelTypeKey(name) == ModelTypePrefix \o <<name>>
HyperparameterInputs ==
    {None,
     Some(<<>>),
     Some(<<Entry(ModelTypeKey("llama"), One)>>),
     Some(<<Entry(ModelTypeKey("gemma"), One)>>),
     Some(<<Entry(ModelTypeKey("llama"), One), Entry(ModelTypeKey("mistral"), One)>>)}

OptimizerKwargs ==
    <<Entry(<<"optimizer">>, StrV(<<"lion">>)),
      Entry(<<"steps">>, IntV("5")),
      Entry(<<"learning_rate">>, FloatV("1e-05"))>>
TxInitInputs == {None, Some(OptimizerKwargs)}

ConfigAttrs == <<Entry(<<"hidden_size">>, IntV("4")), Entry(<<"name">>, StrV(<<"tiny">>))>>

\* the arguments of create: every parameter tree, optimizer and hyperparameters
\* mapping with the optional arguments left out, and the optional arguments (tx_init,
\* module_config as the trainer passes it, module_config_args as other callers do)
\* varied on one parameter tree
CreateArgs(p, tx, t, h, c) ==
    [apply_fn |-> "model.__call__", params |-> p, tx |-> tx, tx_init |-> t,
     hyperparameters |-> h, module |-> Some(<<"llama">>), module_config |-> c[1],
     module_config_args |-> c[2]]
CreateInputs ==
    {CreateArgs(p, tx, None, h, <<None, None>>) :
        p \in ParamTrees, tx \in TxKinds, h \in HyperparameterInputs}
    \cup {CreateArgs(NestedParams, "adamw", t, h, c) :
            t \in TxInitInputs,
            h \in {None, Some(<<>>), Some(<<Entry(ModelTypeKey("llama"), One)>>)},
            c \in {<<None, None>>, <<Some(ConfigAttrs), None>>, <<None, Some(ConfigAttrs)>>}}
    \cup {CreateArgs(NestedParams, GetOptimizerAndScheduler(OptimizerKwargs),
                     Some(OptimizerKwargs), Some(<<Entry(ModelTypeKey("llama"), One)>>),
                     <<None, None>>)}

LoadInputs ==
    {[step |-> 2, apply_fn |-> "model.__call__", params |-> p, opt_state |-> o,
      tx_init |-> t, hyperparameters |-> None, module |-> None, module_config |-> None,
      module_config_args |-> None] :
        p \in ParamTrees,
        o \in {None, Some(TxInit("lion", NestedParams))},
        t \in TxInitInputs \cup {Some(<<Entry(<<"scheduler">>, StrV(<<"linear">>))>>)}}

\* the checkpoint file a repository holds: a created state, saved with its
\* optimizer state
HubCheckpoint ==
    SaveStateToFile(Create(CreateArgs(NestedParams, "adamw", None,
                                      Some(<<Entry(ModelTypeKey("llama"), One)>>),
                                      <<None, None>>)).ret)

\* the same record without the key module_config_args
HubCheckpointWithoutArgs ==
    [k \in DOMAIN HubCheckpoint \ {"module_config_args"} |-> HubCheckpoint[k]]

FromPretrainedInputs ==
    {[filename |-> f, hub |-> h, tx_init |-> t,
      init_optimizer_state |-> i, free_optimizer_state |-> fr] :
        h \in {HubCheckpoint, HubCheckpointWithoutArgs},
        f \in {None, Some("easydel-model.easy")},
        t \in {None, Some(OptimizerKwargs),
               Some(<<Entry(<<"optimizer">>, StrV(<<"lion">>)),
                      Entry(<<"scheduler">>, StrV(<<"linear">>))>>)},
        i \in BOOLEAN, fr \in BOOLEAN}

\* gradient trees for a state: of the topology of its parameters, and one that lacks
\* its "w" leaves; for parameters with the overwrite-with-gradient group also one
\* without that group and one whose group holds another leaf
GradInputs(params) ==
    {GradOf(params, g) : g \in 1..MaxGrad}
    \cup {[q \in {r \in DOMAIN params : r[Len(r)] # "w"} |-> 1]}
    \cup (IF OVERWRITE_WITH_GRADIENT \in TopKeys(params) /\ "params" \in TopKeys(params)
          THEN {Under("params", GradOf(Subtree(params, "params"), 1)),
                Merge(Under("params", GradOf(Subtree(params, "params"), 1)),
                      Under(OVERWRITE_WITH_GRADIENT, (<<"amax">> :> 1)))}
          ELSE {})

ShardFnInputs == {None, Some("shard_fns")}
RuleInputs == {None, Some("rules")}
MeshInputs == {None, Some("mesh")}

\* ------------------------------------------------------------------ actions

NoCalls == [init |-> 0, update |-> 0, fetch |-> 0]

\* no mapping under safe_dict / unsafe_dict
DictIdle ==
    /\ dictionary_in = <<>>
    /\ dictionary = <<>>
    /\ dict_ops = <<>>

\* no run of train or eval
TrainerIdle ==
    /\ pc = "idle"
    /\ arguments = None
    /\ sharded_state = None
    /\ current_step = 0
    /\ epoch = 0
    /\ batch_index = 0
    /\ filename = None
    /\ information_queries = None
    /\ ended = "none"
    /\ train_err = "none"
    /\ running_sums = "None"
    /\ steps_run = <<>>
    /\ saves = <<>>
    /\ eval_records = <<>>
    /\ eval_calls = 0
    /\ eval_step = 0
    /\ output = None
    /\ eval_ended = "none"
    /\ eval_loss_sum = None
    /\ loss_sum = None
    /\ mean_loss = None
    /\ mesh_depth = 0
    /\ sharded_ops = {}

\* no EasyDelState constructed yet
StateInit ==
    /\ st = None
    /\ self_after = None
    /\ op = "none"
    /\ err = "none"
    /\ calls = NoCalls
    /\ grads_in = None
    /\ n_applied = 0
    /\ origin = "none"
    /\ disk = None
    /\ shard_src = "none"
    /\ call_args = None
    /\ last_model_type = None
    /\ inputs_after = None

Init == StateInit /\ DictIdle /\ TrainerIdle

\* the caller's binding after a call: the returned state, or the old one if it raised
Bind(r) == IF r.err = "none" THEN Some(r.ret) ELSE st

\* the caller's tx_init and module_config after create: the loops of create pop and
\* set the keys of the very objects it was given, and the state is built on them
CallerInputsAfter(ret) == [tx_init |-> ret.tx_init, module_config |-> ret.module_config]

DoCreate ==
    /\ st = None
    /\ \E a \in CreateInputs :
        LET r == Create(a)
        IN /\ op' = "create"
           /\ inputs_after' = IF r.err = "none" THEN Some(CallerInputsAfter(r.ret))
                                              ELSE None
           /\ err' = r.err
           /\ st' = Bind(r)
           /\ self_after' = None
           /\ calls' = [init |-> r.init, update |-> r.update, fetch |-> 0]
           /\ grads_in' = None
           /\ n_applied' = IF r.err = "none" THEN 0 ELSE n_applied
           /\ origin' = IF r.err = "none" THEN "create" ELSE origin
           /\ shard_src' = "none"
           /\ call_args' = Some(a) /\ last_model_type' = None
           /\ UNCHANGED disk
    /\ UNCHANGED <<dict_vars, trainer_vars>>

DoLoad ==
    /\ st = None
    /\ \E a \in LoadInputs :
        LET r == Load(a)
        IN /\ op' = "load"
           /\ inputs_after' = None
           /\ err' = r.err
           /\ st' = Bind(r)
           /\ self_after' = None
           /\ calls' = [init |-> r.init, update |-> r.update, fetch |-> 0]
           /\ grads_in' = None
           /\ n_applied' = IF r.err = "none" THEN 0 ELSE n_applied
           /\ origin' = IF r.err = "none" THEN "load" ELSE origin
           /\ shard_src' = "none"
           /\ call_args' = Some(a) /\ last_model_type' = None
           /\ UNCHANGED disk
    /\ UNCHANGED <<dict_vars, trainer_vars>>

DoFromPretrained ==
    /\ st = None
    /\ \E a \in FromPretrainedInputs :
        LET r == FromPretrained(a)
        IN /\ op' = "from_pretrained"
           /\ inputs_after' = None
           /\ err' = r.err
           /\ st' = Bind(r)
           /\ self_after' = None
           /\ calls' = [init |-> r.init, update |-> r.update, fetch |-> r.fetch]
           /\ grads_in' = None
           /\ n_applied' = IF r.err = "none" THEN 0 ELSE n_applied
           /\ origin' = IF r.err = "none" THEN "load_state" ELSE origin
           /\ shard_src' = "none"
           /\ call_args' = Some(a)
           /\ last_model_type' = None
           /\ disk' = None
    /\ UNCHANGED <<dict_vars, trainer_vars>>

DoApplyGradients ==
    /\ st # None
    /\ Get(st).step < MaxStep
    /\ \E g \in GradInputs(Get(st).params) :
        LET r == ApplyGradients(Get(st), g)
        IN /\ op' = "apply_gradients"
           /\ inputs_after' = None
           /\ err' = r.err
           /\ st' = Bind(r)
           /\ self_after' = Some(r.self)
           /\ calls' = [init |-> r.init, update |-> r.update, fetch |-> 0]
           /\ grads_in' = Some(g)
           /\ call_args' = None /\ last_model_type' = None
           /\ n_applied' = IF r.err = "none" THEN n_applied + 1 ELSE n_applied
           /\ shard_src' = "none"
           /\ disk' = None
           /\ UNCHANGED origin
    /\ UNCHANGED <<dict_vars, trainer_vars>>

DoTrainStep ==
    /\ st # None
    /\ Get(st).step < MaxStep
    /\ \E batch \in 1..MaxGrad :
        LET r == TrainStepFn(Get(st), batch)
        IN /\ op' = "train_step"
           /\ inputs_after' = None
           /\ err' = r.err
           /\ st' = Bind(r)
           /\ self_after' = Some(r.self)
           /\ calls' = [init |-> r.init, update |-> r.update, fetch |-> 0]
           /\ grads_in' = Some(GradOf(Get(st).params, batch))
           /\ call_args' = None /\ last_model_type' = None
           /\ n_applied' = IF r.err = "none" THEN n_applied + 1 ELSE n_applied
           /\ shard_src' = "none"
           /\ disk' = None
           /\ UNCHANGED origin
    /\ UNCHANGED <<dict_vars, trainer_vars>>

DoEvalStep ==
    /\ st # None
    /\ \E batch \in 1..MaxGrad :
        LET r == EvalStepFn(Get(st), batch)
        IN /\ op' = "eval_step"
           /\ inputs_after' = None
           /\ err' = r.err
           /\ self_after' = Some(r.self)
           /\ calls' = [init |-> r.init, update |-> r.update, fetch |-> 0]
           /\ grads_in' = None
           /\ call_args' = None /\ last_model_type' = None
           /\ shard_src' = "none"
           /\ disk' = None
           /\ UNCHANGED <<st, n_applied, origin>>
    /\ UNCHANGED <<dict_vars, trainer_vars>>

DoFreeOptState ==
    /\ st # None
    /\ LET r == FreeOptState(Get(st))
       IN /\ op' = "free_opt_state"
          /\ inputs_after' = None
          /\ err' = r.err
          /\ st' = Bind(r)
          /\ self_after' = Some(r.self)
          /\ calls' = [init |-> r.init, update |-> r.update, fetch |-> 0]
          /\ grads_in' = None
          /\ call_args' = None /\ last_model_type' = None
          /\ shard_src' = "none"
          /\ disk' = None
          /\ UNCHANGED <<n_applied, origin>>
    /\ UNCHANGED <<dict_vars, trainer_vars>>

DoInitOptState ==
    /\ st # None
    /\ LET r == InitOptState(Get(st))
       IN /\ op' = "init_opt_state"
          /\ inputs_after' = None
          /\ err' = r.err
          /\ st' = Bind(r)
          /\ self_after' = Some(r.self)
          /\ calls' = [init |-> r.init, update |-> r.update, fetch |-> 0]
          /\ grads_in' = None
          /\ call_args' = None /\ last_model_type' = None
          /\ shard_src' = "none"
          /\ UNCHANGED <<n_applied, origin, disk>>
    /\ UNCHANGED <<dict_vars, trainer_vars>>

DoShardParams ==
    /\ st # None
    /\ \E shard_fns \in ShardFnInputs, rules \in RuleInputs, mesh \in MeshInputs :
        LET r == ShardParams(Get(st), shard_fns, rules, mesh)
        IN /\ op' = "shard_params"
           /\ inputs_after' = None
           /\ err' = r.err
           /\ st' = Bind(r)
           /\ self_after' = Some(r.self)
           /\ calls' = NoCalls
           /\ grads_in' = None
           /\ call_args' = Some([shard_fns |-> shard_fns, rules |-> rules, mesh |-> mesh])
           /\ last_model_type' = None
           /\ shard_src' = r.src
           /\ disk' = None
          /\ UNCHANGED <<n_applied, origin>>
    /\ UNCHANGED <<dict_vars, trainer_vars>>

DoSaveState ==
    /\ st # None
    /\ \E save_optimizer \in BOOLEAN :
        LET r == SaveState(Get(st), save_optimizer)
        IN /\ op' = "save_state"
           /\ inputs_after' = None
           /\ err' = r.err
           /\ self_after' = Some(r.self)
           /\ calls' = [init |-> r.init, update |-> r.update, fetch |-> 0]
           /\ grads_in' = None
           /\ call_args' = None /\ last_model_type' = None
           /\ shard_src' = "none"
           /\ disk' = Some([file |-> r.file, state |-> Get(st),
                            save_optimizer |-> save_optimizer])
           /\ UNCHANGED <<st, n_applied, origin>>
    /\ UNCHANGED <<dict_vars, trainer_vars>>

DoLoadState ==
    /\ disk # None
    /\ \E init_optimizer_state \in BOOLEAN :
        LET r == LoadState(Get(disk).file, init_optimizer_state)
        IN /\ op' = IF init_optimizer_state THEN "load_state_init" ELSE "load_state"
           /\ inputs_after' = None
           /\ err' = r.err
           /\ st' = Bind(r)
           /\ self_after' = None
           /\ calls' = [init |-> r.init, update |-> r.update, fetch |-> 0]
           /\ grads_in' = None
           /\ n_applied' = IF r.err = "none" THEN 0 ELSE n_applied
           /\ origin' = IF r.err = "none" THEN "load_state" ELSE origin
           /\ shard_src' = "none"
           /\ call_args' = None
           /\ last_model_type' = r.model_type
           /\ UNCHANGED disk
    /\ UNCHANGED <<dict_vars, trainer_vars>>

Next ==
    \/ DoCreate
    \/ DoLoad
    \/ DoFromPretrained
    \/ DoApplyGradients
    \/ DoTrainStep
    \/ DoEvalStep
    \/ DoFreeOptState
    \/ DoInitOptState
    \/ DoShardParams
    \/ DoSaveState
    \/ DoLoadState

Spec == Init /\ [][Next]_vars

\* --------------------------------------------- safe_dict and unsafe_dict

\* mappings of keys with and without the separator in their text, to values that
\* safe_dict keeps (int) and values it encodes (str, float)
DictKeys == {<<"a">>, <<"a", IS, "b">>, <<"n">>}
DictValues == {IntV("7"), StrV(<<"b">>), StrV(<<"b", IS, "c">>), FloatV("0.5")}
DictInputs ==
    {d \in UNION {[1..n -> [k : DictKeys, v : DictValues]] : n \in 0..MaxDictLen} :
        \A i, j \in 1..Len(d) : d[i].k = d[j].k => i = j}

DictInit ==
    /\ dictionary_in \in DictInputs
    /\ dictionary = dictionary_in
    /\ dict_ops = <<>>
    /\ StateInit
    /\ TrainerIdle

\* dictionary = EasyDelState.safe_dict(dictionary)
DoSafeDict ==
    /\ Len(dict_ops) < MaxDictOps
    /\ dictionary' = SafeDict(dictionary)
    /\ dict_ops' = Append(dict_ops, "safe_dict")
    /\ UNCHANGED <<dictionary_in, state_vars, trainer_vars>>

\* dictionary = EasyDelState.unsafe_dict(dictionary)
DoUnsafeDict ==
    /\ Len(dict_ops) < MaxDictOps
    /\ dictionary' = UnsafeDict(dictionary)
    /\ dict_ops' = Append(dict_ops, "unsafe_dict")
    /\ UNCHANGED <<dictionary_in, state_vars, trainer_vars>>

DictNext ==
    \/ DoSafeDict
    \/ DoUnsafeDict

DictSpec == DictInit /\ [][DictNext]_vars

\* ------------------------------------- VisionCausalLanguageModelTrainer
\* arguments holds what a run is configured with: the TrainArguments the code
\* reads (num_train_epochs, step_start_point, save_steps, do_last_save, do_eval,
\* training_time, merge_lora_rapture_parameters), the trainer's attributes
\* (finetune, checkpoint_path, rapture, max_training_steps, dataloader_train,
\* dataloader_eval) and the two arguments of train (model_parameters, state).

\* EasyDelState.create_hyperparameters(model_type)
CreateHyperparameters(model_type) == <<Entry(ModelTypeKey(model_type), One)>>

\* self.lora_parameters: the parameters the LoRA configuration produced, None
\* without one
LoraParams == (<<"params", "lora_a">> :> 1) @@ (<<"params", "lora_b">> :> 2)
LoraParameters(rapture) == IF rapture = None THEN None ELSE Some(LoraParams)

\* self.rapture.merge_parameters(params): the LoRA weights folded into the leaves
MergeParameters(params) == [q \in DOMAIN params |-> (params[q] + 1) % ValMod]

\* create_state_from_params_function(parameters)
CreateStateFromParams(a, parameters) ==
    IF a.rapture = None
    THEN Create(CreateArgs(parameters, "adamw", Some(OptimizerKwargs),
                           Some(CreateHyperparameters("llama")),
                           <<Some(ConfigAttrs), None>>))
    ELSE [err |-> "none", init |-> 0, update |-> 0,
          ret |-> [step |-> 0,
                   apply_fn |-> "lora_apply_fn",
                   module |-> Some(<<"lora_model">>),
                   params |-> parameters,
                   tx |-> "adamw",
                   opt_state |-> Some(TxInit("adamw", parameters)),
                   tx_init |-> Some(SafeDict(OptimizerKwargs)),
                   hyperparameters |-> Some(CreateHyperparameters("llama")),
                   module_config |-> Some(ConfigAttrs),
                   module_config_args |-> None]]

\* a load that leaves the optimizer state as the checkpoint has it
LoadShardedAsStored(checkpoint_path) == LoadState(checkpoint_path, FALSE)
\* EasyDelState.load_state(state_shard_fns=shard_fns, init_optimizer_state=True,
\*                         checkpoint_path=self.checkpoint_path)
LoadSharded(checkpoint_path) == LoadState(checkpoint_path, TRUE)

\* an initialize_state that takes any call as having a source
AlwaysInitSource(model_parameters, state, rapture, checkpoint_path) == FALSE
\* if model_parameters is None and state is None and self.rapture is None
\*    and self.checkpoint_path is None
NoInitSource(model_parameters, state, rapture, checkpoint_path) ==
    model_parameters = None /\ state = None /\ rapture = None /\ checkpoint_path = None

\* self.initialize_state(model_parameters, state): the exception raised, or the
\* sharded state returned. EasyDelState is a frozen dataclass, so the assignments
\* sharded_state.params = params raise dataclasses.FrozenInstanceError.
InitializeState(a) ==
    IF NoInitSource(a.model_parameters, a.state, a.rapture, a.checkpoint_path)
    THEN [err |-> "RuntimeError"]
    ELSE LET model_parameters ==
                 IF a.model_parameters = None /\ a.state = None
                 THEN LoraParameters(a.rapture)
                 ELSE a.model_parameters
         IN IF a.state # None
            THEN [err |-> "FrozenInstanceError"]
            ELSE IF a.finetune
            THEN IF model_parameters = None /\ a.checkpoint_path # None
                 THEN LET r == LoadSharded(Get(a.checkpoint_path))
                      IN IF r.err # "none" THEN [err |-> r.err]
                         ELSE [err |-> "none", ret |-> r.ret]
                 ELSE IF model_parameters # None /\ a.checkpoint_path = None
                 THEN LET r == CreateStateFromParams(a, Get(model_parameters))
                      IN IF r.err # "none" THEN [err |-> r.err]
                         ELSE [err |-> "none", ret |-> r.ret]
                 ELSE [err |-> "EasyDelTimerError"]
            ELSE \* sharded_state = self.initialize_state_function()
                 [err |-> "FrozenInstanceError"]

\* total_roved_steps = current_step - step_start_point, then sum / total_roved_steps
\* for each running sum: the exception raised, or "none"
RunningMeansError(step, step_start_point, sums) ==
    IF step_start_point = None THEN "TypeError"
    ELSE IF step - Get(step_start_point) = 0 /\ sums = "float" THEN "ZeroDivisionError"
    ELSE "none"

\* x.tolist() if x_sum is None else x_sum + x
AddToSums(sums) == IF sums = "None" THEN "float" ELSE "Array"

\* if save_steps is not None and current_step % save_steps == 0: if self.rapture is None
SaveDue(save_steps, step, rapture) ==
    save_steps # None /\ step % Get(save_steps) = 0 /\ rapture = None

\* a last save whenever do_last_save is set
LastSaveAlways(save_steps, do_last_save) == do_last_save
\* if self.arguments.save_steps is None and self.arguments.do_last_save
LastSaveDue(save_steps, do_last_save) == save_steps = None /\ do_last_save

\* self._save_state(state, gather_fns, milestone) of the base trainer: writes
\* the state and returns the name of the file
SaveStateFileName(state, milestone) == [step |-> state.step, milestone |-> milestone]
WrittenCheckpoint(state, milestone, step) ==
    [state |-> state, milestone |-> milestone, current_step |-> step, complete |-> FALSE]
\* the write has gone through
Completed(w) == [w EXCEPT !.complete = TRUE]

\* ---- what a run is configured with

Batches(n) == [i \in 1..n |-> 1]

TrainerState(step) ==
    [Create(CreateArgs(NestedParams, "adamw", Some(OptimizerKwargs),
                       Some(CreateHyperparameters("llama")),
                       <<Some(ConfigAttrs), None>>)).ret EXCEPT !.step = step]

\* a checkpoint file written by save_state without the optimizer state
TrainerCheckpoint(step) ==
    SaveStateToFile([TrainerState(step) EXCEPT !.opt_state = None])

TrainArgs(src, lp, dat, sav, ev) ==
    [entry |-> "train", model_state |-> None,
     model_parameters |-> src[1], state |-> src[2], checkpoint_path |-> src[3],
     rapture |-> src[4], finetune |-> src[5],
     merge_lora_rapture_parameters |-> src[6], training_time |-> src[7],
     num_train_epochs |-> lp[1], max_training_steps |-> lp[2],
     step_start_point |-> lp[3],
     dataloader_train |-> dat,
     save_steps |-> sav[1], do_last_save |-> sav[2],
     do_eval |-> ev[1], dataloader_eval |-> ev[2]]

OptionalNat(lo, hi) == {None} \cup {Some(n) : n \in lo..hi}

SourceInputs ==
    {<<p, s, c, r, f, m, t>> :
        p \in {None, Some(NestedParams)},
        s \in {None, Some(TrainerState(1))},
        c \in {None, Some(TrainerCheckpoint(0)), Some(TrainerCheckpoint(1))},
        r \in {None, Some("lora")},
        f \in BOOLEAN, m \in BOOLEAN, t \in {None, Some(60)}}

ParametersOnly == <<Some(NestedParams), None, None, None, TRUE, FALSE, None>>

EvalData == {None} \cup {Some(Batches(n)) : n \in 0..MaxBatches}

EvalInputs == {<<FALSE, None>>} \cup {<<TRUE, d>> : d \in EvalData}

\* every way of supplying the sources on two loops, and every loop on the
\* parameters of a model
TrainInputs ==
    {TrainArgs(src, <<1, MaxTrainingSteps, ssp>>, Batches(MaxBatches),
               <<Some(1), TRUE>>, <<FALSE, None>>) :
        src \in SourceInputs, ssp \in {Some(0), Some(MaxBatches)}}
    \cup {TrainArgs(ParametersOnly, <<e, mx, ssp>>, Batches(nb), <<ss, dls>>, ev) :
            e \in 1..MaxEpochs, mx \in 1..MaxTrainingSteps,
            ssp \in OptionalNat(0, MaxBatches), nb \in 0..MaxBatches,
            ss \in OptionalNat(1, MaxBatches), dls \in BOOLEAN, ev \in EvalInputs}

\* eval called by itself on a state, for every evaluation data and every
\* step_start_point of the arguments
EvalCallInputs ==
    {[TrainArgs(ParametersOnly, <<1, MaxTrainingSteps, ssp>>, Batches(0),
                <<None, FALSE>>, <<TRUE, d>>)
        EXCEPT !.entry = "eval", !.model_state = Some(TrainerState(1))] :
        ssp \in OptionalNat(0, MaxBatches), d \in EvalData}

\* ---- one run of train, or of eval called by itself

\* the loss a step function returns for a batch
LossOf(batch) == batch

\* loss.tolist() if loss_sum is None else loss_sum + loss
AddLoss(sum, loss) == IF sum = None THEN Some(loss) ELSE Some(Get(sum) + loss)

\* a sharded operation and the depth of the mesh context it ran at
ShardedOp(name, depth) == [op |-> name, mesh |-> depth]

\* an eval without a handler
EvalCatchesNothing(exception) == FALSE
\* except KeyboardInterrupt of eval
EvalCatches(exception) == exception = "KeyboardInterrupt"

TrainInit ==
    /\ arguments \in {Some(a) : a \in TrainInputs \cup EvalCallInputs}
    /\ pc = "start"
    /\ sharded_state = None
    /\ current_step = 0
    /\ epoch = 0
    /\ batch_index = 0
    /\ filename = None
    /\ information_queries = None
    /\ ended = "none"
    /\ train_err = "none"
    /\ running_sums = "None"
    /\ steps_run = <<>>
    /\ saves = <<>>
    /\ eval_records = <<>>
    /\ eval_calls = 0
    /\ eval_step = 0
    /\ output = None
    /\ eval_ended = "none"
    /\ eval_loss_sum = None
    /\ loss_sum = None
    /\ mean_loss = None
    /\ mesh_depth = 0
    /\ sharded_ops = {}
    /\ StateInit
    /\ DictIdle

\* train up to the loop: initialize_state, which enters the mesh context for its
\* body and leaves it, then with self.mesh and current_step = int(sharded_state.step)
RunInitializeState ==
    /\ pc = "start"
    /\ Get(arguments).entry = "train"
    /\ LET r == InitializeState(Get(arguments))
       IN IF r.err # "none"
          THEN /\ pc' = "raised"
               /\ train_err' = r.err
               /\ UNCHANGED <<sharded_state, current_step, mesh_depth, sharded_ops>>
          ELSE /\ pc' = "loop"
               /\ sharded_state' = Some(r.ret)
               /\ current_step' = r.ret.step
               /\ sharded_ops' = sharded_ops \cup {ShardedOp("shard_fns", mesh_depth + 1)}
               /\ mesh_depth' = mesh_depth + 1
               /\ UNCHANGED train_err
    /\ UNCHANGED <<arguments, epoch, batch_index, filename, information_queries, ended,
                   running_sums, steps_run, saves, eval_records, eval_calls, eval_step,
                   output, eval_ended, eval_loss_sum, loss_sum, mean_loss>>
    /\ UNCHANGED <<state_vars, dict_vars>>

\* eval(model_state) called by itself: the call of a generator function runs none
\* of its body and returns the sequence
CallEval ==
    /\ pc = "start"
    /\ Get(arguments).entry = "eval"
    /\ pc' = "eval"
    /\ sharded_state' = Get(arguments).model_state
    /\ eval_calls' = eval_calls + 1
    /\ UNCHANGED <<arguments, current_step, epoch, batch_index, filename,
                   information_queries, ended, train_err, running_sums, steps_run, saves,
                   eval_records, eval_step, output, eval_ended, eval_loss_sum, loss_sum,
                   mean_loss, mesh_depth, sharded_ops>>
    /\ UNCHANGED <<state_vars, dict_vars>>

\* the head of the two loops: the next epoch, the next batch, current_step += 1
\* and the choice between skipping the batch, training on it and break
NextBatch ==
    /\ pc = "loop"
    /\ LET a == Get(arguments)
       IN IF epoch >= a.num_train_epochs
          THEN /\ pc' = "after_loop"
               /\ ended' = "completed"
               /\ UNCHANGED <<current_step, epoch, batch_index>>
          ELSE IF batch_index >= Len(a.dataloader_train)
          THEN /\ epoch' = epoch + 1
               /\ batch_index' = 0
               /\ UNCHANGED <<pc, ended, current_step>>
          ELSE /\ current_step' = current_step + 1
               /\ UNCHANGED ended
               /\ IF a.step_start_point # None /\ Get(a.step_start_point) > current_step'
                  THEN /\ pc' = "save_check"
                       /\ batch_index' = batch_index + 1
                       /\ UNCHANGED epoch
                  ELSE IF current_step' < a.max_training_steps
                  THEN /\ pc' = "train_step"
                       /\ batch_index' = batch_index + 1
                       /\ UNCHANGED epoch
                  ELSE \* break
                       /\ pc' = "loop"
                       /\ epoch' = epoch + 1
                       /\ batch_index' = 0
    /\ UNCHANGED <<arguments, sharded_state, filename, information_queries, train_err,
                   running_sums, steps_run, saves, eval_records, eval_calls, eval_step,
                   output, eval_ended, eval_loss_sum, loss_sum, mean_loss, mesh_depth,
                   sharded_ops>>
    /\ UNCHANGED <<state_vars, dict_vars>>

\* the two additions of the loss to loss_sum in the body of the train step
TrainLossSum(sum, loss) == AddLoss(AddLoss(sum, loss), loss)

\* "mean_loss": loss_sum / total_roved_steps, kept as the sum and the divisor
MeanLoss(sum, step, step_start_point) ==
    [sum |-> Get(sum), steps |-> step - Get(step_start_point)]

\* the body of elif current_step < self.max_training_steps: the train step, the
\* running sums, the metrics and the test of training_time. The time that has
\* passed is the environment's, so a run with a training_time may or may not be
\* over it.
RunTrainStep ==
    /\ pc = "train_step"
    /\ LET a == Get(arguments)
           batch == a.dataloader_train[batch_index]
           r == TrainStepFn(Get(sharded_state), batch)
           sums == AddToSums(running_sums)
           e == RunningMeansError(current_step, a.step_start_point, sums)
       IN /\ sharded_ops' = sharded_ops \cup {ShardedOp("train_step", mesh_depth)}
          /\ IF r.err # "none"
             THEN /\ pc' = "raised"
                  /\ train_err' = r.err
                  /\ mesh_depth' = 0
                  /\ UNCHANGED <<sharded_state, running_sums, steps_run, ended, loss_sum,
                                 mean_loss>>
             ELSE /\ sharded_state' = Some(r.ret)
                  /\ steps_run' = Append(steps_run,
                                         [current_step |-> current_step, state |-> r.ret,
                                          loss |-> LossOf(batch)])
                  /\ running_sums' = sums
                  /\ loss_sum' = TrainLossSum(loss_sum, LossOf(batch))
                  /\ mean_loss' = IF a.step_start_point = None THEN mean_loss
                                  ELSE Some(MeanLoss(loss_sum', current_step,
                                                     a.step_start_point))
                  /\ IF e # "none"
                     THEN /\ pc' = "raised"
                          /\ train_err' = e
                          /\ mesh_depth' = 0
                          /\ UNCHANGED ended
                     ELSE IF information_queries = None
                     THEN \* "accelerators": information_queries
                          /\ pc' = "raised"
                          /\ train_err' = "UnboundLocalError"
                          /\ mesh_depth' = 0
                          /\ UNCHANGED ended
                     ELSE \E timed_out \in IF a.training_time # None THEN BOOLEAN ELSE {FALSE} :
                          IF timed_out
                          THEN \* raise EasyDelTimerError("Time Out"), caught below the loop
                               /\ pc' = "after_loop"
                               /\ ended' = "timeout"
                               /\ UNCHANGED <<train_err, mesh_depth>>
                          ELSE /\ pc' = "save_check"
                               /\ UNCHANGED <<ended, train_err, mesh_depth>>
    /\ UNCHANGED <<arguments, current_step, epoch, batch_index, filename,
                   information_queries, saves, eval_records, eval_calls, eval_step,
                   output, eval_ended, eval_loss_sum>>
    /\ UNCHANGED <<state_vars, dict_vars>>

\* if save_steps is not None and current_step % save_steps == 0, after the skipped
\* and after the trained batch: the call of _save_state, which starts to write
SaveCheck ==
    /\ pc = "save_check"
    /\ LET a == Get(arguments)
           state == Get(sharded_state)
       IN IF SaveDue(a.save_steps, current_step, a.rapture)
          THEN /\ saves' = Append(saves, WrittenCheckpoint(state, TRUE, current_step))
               /\ sharded_ops' = sharded_ops \cup {ShardedOp("save_state", mesh_depth)}
               /\ pc' = "saving"
          ELSE /\ pc' = "loop"
               /\ UNCHANGED <<saves, sharded_ops>>
    /\ UNCHANGED <<arguments, sharded_state, current_step, epoch, batch_index, filename,
                   information_queries, ended, train_err, running_sums, steps_run,
                   eval_records, eval_calls, eval_step, output, eval_ended,
                   eval_loss_sum, loss_sum, mean_loss, mesh_depth>>
    /\ UNCHANGED <<state_vars, dict_vars>>

\* filename = self._save_state(...): the write goes through and the name is bound
FinishSave ==
    /\ pc = "saving"
    /\ saves' = [saves EXCEPT ![Len(saves)] = Completed(@)]
    /\ filename' = Some(SaveStateFileName(Get(sharded_state), TRUE))
    /\ pc' = "loop"
    /\ UNCHANGED <<arguments, sharded_state, current_step, epoch, batch_index,
                   information_queries, ended, train_err, running_sums, steps_run,
                   eval_records, eval_calls, eval_step, output, eval_ended,
                   eval_loss_sum, loss_sum, mean_loss, mesh_depth, sharded_ops>>
    /\ UNCHANGED <<state_vars, dict_vars>>

\* except KeyboardInterrupt: the interrupt arrives while the loop runs; the train
\* step it arrives in does not return, the write it arrives in stops where it is
KeyboardInterrupt ==
    /\ pc \in {"loop", "train_step", "save_check", "saving"}
    /\ pc' = "after_loop"
    /\ ended' = "interrupt"
    /\ UNCHANGED <<arguments, sharded_state, current_step, epoch, batch_index, filename,
                   information_queries, train_err, running_sums, steps_run, saves,
                   eval_records, eval_calls, eval_step, output, eval_ended,
                   eval_loss_sum, loss_sum, mean_loss, mesh_depth, sharded_ops>>
    /\ UNCHANGED <<state_vars, dict_vars>>

\* below the loop: the merge of the LoRA parameters, the TrainerOutput, the last
\* save and the call of eval
AfterLoop ==
    /\ pc = "after_loop"
    /\ LET a == Get(arguments)
           state == IF a.merge_lora_rapture_parameters /\ a.rapture # None
                    THEN [Get(sharded_state) EXCEPT !.params = MergeParameters(@)]
                    ELSE Get(sharded_state)
       IN /\ sharded_state' = Some(state)
          /\ output' = Some([state |-> state, checkpoint_path |-> None,
                             last_save_file_name |-> None])
          /\ IF LastSaveDue(a.save_steps, a.do_last_save)
             THEN /\ saves' = Append(saves,
                                      Completed(WrittenCheckpoint(state, FALSE, current_step)))
                  /\ filename' = Some(SaveStateFileName(state, FALSE))
                  /\ sharded_ops' = sharded_ops \cup {ShardedOp("save_state", mesh_depth)}
             ELSE UNCHANGED <<saves, filename, sharded_ops>>
          /\ IF a.do_eval
             THEN /\ pc' = "eval"
                  /\ eval_calls' = eval_calls + 1
             ELSE /\ pc' = "finish"
                  /\ UNCHANGED eval_calls
    /\ UNCHANGED <<arguments, current_step, epoch, batch_index, information_queries,
                   ended, train_err, running_sums, steps_run, eval_records, eval_step,
                   eval_ended, eval_loss_sum, loss_sum, mean_loss, mesh_depth>>
    /\ UNCHANGED <<state_vars, dict_vars>>

\* where the caller of eval goes on when the sequence has ended: train below its
\* for loop, a caller of eval by itself with nothing more to do
AfterEval(a) == IF a.entry = "train" THEN "finish" ELSE "returned"

\* the depth of the mesh context in the body of eval: the sequence enters it when
\* it is asked for the first record, and stays in it while it waits at a yield
EvalMeshDepth == IF eval_step = 0 THEN mesh_depth + 1 ELSE mesh_depth

\* eval(model_state) asked for its next record: the assertion when it is asked for
\* the first one, then one batch of dataloader_eval; its running sums are None
\* before the first batch
EvalBatch ==
    /\ pc = "eval"
    /\ LET a == Get(arguments)
       IN IF a.dataloader_eval = None
          THEN /\ pc' = "raised"
               /\ train_err' = "AssertionError"
               /\ mesh_depth' = 0
               /\ UNCHANGED <<eval_step, eval_records, eval_ended, eval_loss_sum,
                              sharded_ops>>
          ELSE IF eval_step >= Len(Get(a.dataloader_eval))
          THEN /\ pc' = AfterEval(a)
               /\ eval_ended' = "exhausted"
               /\ mesh_depth' = EvalMeshDepth - 1
               /\ UNCHANGED <<train_err, eval_step, eval_records, eval_loss_sum,
                              sharded_ops>>
          ELSE LET step == eval_step + 1
                   batch == Get(a.dataloader_eval)[step]
                   r == EvalStepFn(Get(sharded_state), batch)
                   e == RunningMeansError(step, a.step_start_point,
                                          AddToSums(IF eval_step = 0 THEN "None" ELSE "Array"))
               IN /\ eval_step' = step
                  /\ sharded_ops' = sharded_ops \cup {ShardedOp("eval_step", EvalMeshDepth)}
                  /\ UNCHANGED eval_ended
                  /\ IF r.err # "none" \/ e # "none"
                     THEN /\ pc' = "raised"
                          /\ train_err' = IF r.err # "none" THEN r.err ELSE e
                          /\ mesh_depth' = 0
                          /\ UNCHANGED <<eval_records, eval_loss_sum>>
                     ELSE /\ eval_loss_sum' = AddLoss(eval_loss_sum, LossOf(batch))
                          /\ eval_records' =
                                 Append(eval_records,
                                        [eval_step |-> step, batch |-> step,
                                         eval_mean_loss |-> MeanLoss(eval_loss_sum', step,
                                                                     a.step_start_point)])
                          /\ mesh_depth' = EvalMeshDepth
                          /\ UNCHANGED <<pc, train_err>>
    /\ UNCHANGED <<arguments, sharded_state, current_step, epoch, batch_index, filename,
                   information_queries, ended, running_sums, steps_run, saves, eval_calls,
                   output, loss_sum, mean_loss>>
    /\ UNCHANGED <<state_vars, dict_vars>>

\* a KeyboardInterrupt while eval works on a batch: caught by the handler of eval,
\* the sequence ends there
InterruptEval ==
    /\ pc = "eval"
    /\ Get(arguments).dataloader_eval # None
    /\ eval_step < Len(Get(Get(arguments).dataloader_eval))
    /\ eval_ended' = "interrupt"
    /\ IF EvalCatches("KeyboardInterrupt")
       THEN /\ pc' = AfterEval(Get(arguments))
            /\ mesh_depth' = EvalMeshDepth - 1
            /\ UNCHANGED train_err
       ELSE /\ pc' = "raised"
            /\ train_err' = "KeyboardInterrupt"
            /\ mesh_depth' = 0
    /\ UNCHANGED <<arguments, sharded_state, current_step, epoch, batch_index, filename,
                   information_queries, ended, running_sums, steps_run, saves,
                   eval_records, eval_calls, eval_step, output, eval_loss_sum, loss_sum,
                   mean_loss, sharded_ops>>
    /\ UNCHANGED <<state_vars, dict_vars>>

\* the caller of eval stops asking for records while the sequence waits at a yield,
\* inside with self.mesh
AbandonEval ==
    /\ pc = "eval"
    /\ Get(arguments).entry = "eval"
    /\ eval_step >= 1
    /\ pc' = "abandoned"
    /\ UNCHANGED <<arguments, sharded_state, current_step, epoch, batch_index, filename,
                   information_queries, ended, train_err, running_sums, steps_run, saves,
                   eval_records, eval_calls, eval_step, output, eval_ended,
                   eval_loss_sum, loss_sum, mean_loss, mesh_depth, sharded_ops>>
    /\ UNCHANGED <<state_vars, dict_vars>>

\* the abandoned sequence is closed, by its caller or when it is collected:
\* GeneratorExit at the yield leaves with self.mesh
CloseEval ==
    /\ pc = "abandoned"
    /\ pc' = "closed"
    /\ eval_ended' = "closed"
    /\ mesh_depth' = mesh_depth - 1
    /\ UNCHANGED <<arguments, sharded_state, current_step, epoch, batch_index, filename,
                   information_queries, ended, train_err, running_sums, steps_run, saves,
                   eval_records, eval_calls, eval_step, output, eval_loss_sum, loss_sum,
                   mean_loss, sharded_ops>>
    /\ UNCHANGED <<state_vars, dict_vars>>

\* output.checkpoint_path = checkpoint_path; output.last_save_file_name = filename;
\* return output
Finish ==
    /\ pc = "finish"
    /\ IF filename = None
       THEN /\ pc' = "raised"
            /\ train_err' = "UnboundLocalError"
            /\ UNCHANGED output
       ELSE /\ pc' = "returned"
            /\ output' = Some([Get(output) EXCEPT !.checkpoint_path = filename,
                                                  !.last_save_file_name = filename])
            /\ UNCHANGED train_err
    /\ mesh_depth' = 0
    /\ UNCHANGED <<arguments, sharded_state, current_step, epoch, batch_index, filename,
                   information_queries, ended, running_sums, steps_run, saves,
                   eval_records, eval_calls, eval_step, eval_ended, eval_loss_sum,
                   loss_sum, mean_loss, sharded_ops>>
    /\ UNCHANGED <<state_vars, dict_vars>>

\* the steps of train itself
TrainProgram ==
    \/ RunInitializeState
    \/ NextBatch
    \/ RunTrainStep
    \/ SaveCheck
    \/ FinishSave
    \/ AfterLoop
    \/ EvalBatch
    \/ Finish

TrainNext ==
    \/ RunInitializeState
    \/ CallEval
    \/ NextBatch
    \/ RunTrainStep
    \/ SaveCheck
    \/ FinishSave
    \/ KeyboardInterrupt
    \/ AfterLoop
    \/ EvalBatch
    \/ InterruptEval
    \/ AbandonEval
    \/ CloseEval
    \/ Finish

TrainSpec == TrainInit /\ [][TrainNext]_vars

\* train as it is run: a step of train that can be taken is taken; interrupts and
\* what the caller of eval does are not owed to anyone
FairTrainInputs ==
    {TrainArgs(ParametersOnly, <<e, MaxTrainingSteps, ssp>>, Batches(MaxBatches),
               <<ss, TRUE>>, ev) :
        e \in 1..MaxEpochs, ssp \in {Some(n) : n \in 0..MaxBatches},
        ss \in {None, Some(1)}, ev \in {<<FALSE, None>>, <<TRUE, Some(Batches(1))>>}}
    \cup {a \in EvalCallInputs : a.step_start_point = Some(0)}

FairTrainInit == TrainInit /\ Get(arguments) \in FairTrainInputs

FairTrainSpec == FairTrainInit /\ [][TrainNext]_vars /\ WF_vars(TrainProgram)

\* ============================================================== properties

\* C1: a state returned by create has step 0, and its opt_state is exactly tx.init
\* applied to the parameters, or to params['params'] when the overwrite-with-gradient
\* key is present in params; create calls tx.init once.
C1_CreateInitialState ==
    (op = "create" /\ err = "none") =>
        LET s == Get(st)
            params == Get(call_args).params
            group == IF OVERWRITE_WITH_GRADIENT \in TopKeys(params)
                     THEN Subtree(params, "params") ELSE params
        IN /\ s.step = 0
           /\ s.opt_state = Some(TxInit(Get(call_args).tx, group))
           /\ Topology(Get(s.opt_state).mu) = Topology(group)
           /\ calls.init = 1

\* create has returned a state for parameters that hold the overwrite-with-gradient
\* group next to the 'params' group
C1_Witness ==
    /\ op = "create" /\ err = "none"
    /\ OVERWRITE_WITH_GRADIENT \in TopKeys(Get(call_args).params)
    /\ Topology(Get(Get(st).opt_state).mu) # Topology(Get(st).params)

\* C2 (as amended): one apply_gradients(grads) on a state s returns a state whose
\* step is s.step + 1 and whose opt_state is the second component of the single call
\* tx.update(grads_with_opt, s.opt_state, params_with_opt), where the two trees are
\* grads and s.params, or their 'params' subtrees when grads holds the
\* overwrite-with-gradient key; tx.update is called once.
C2_ApplyGradientsOneUpdate ==
    [][(op' \in {"apply_gradients", "train_step"} /\ err' = "none") =>
        LET s == Get(st)
            grads == Get(grads_in')
            owg == OVERWRITE_WITH_GRADIENT \in TopKeys(grads)
            grads_with_opt == IF owg THEN Subtree(grads, "params") ELSE grads
            params_with_opt == IF owg THEN Subtree(s.params, "params") ELSE s.params
        IN /\ Get(st').step = s.step + 1
           /\ Get(st').opt_state =
                  Some(TxUpdate(s.tx, grads_with_opt, Get(s.opt_state), params_with_opt).state)
           /\ calls'.update = 1]_vars

\* C2 as stated: the opt_state returned is the second component of
\* tx.update(grads, s.opt_state, s.params) on the whole trees, whatever grads holds
C2_UpdateOnWholeTrees ==
    [][(op' \in {"apply_gradients", "train_step"} /\ err' = "none") =>
        LET s == Get(st)
            grads == Get(grads_in')
        IN /\ Get(st').step = s.step + 1
           /\ ~TxUpdateFails(s.tx, grads, s.opt_state, s.params)
           /\ Get(st').opt_state =
                  Some(TxUpdate(s.tx, grads, Get(s.opt_state), s.params).state)
           /\ calls'.update = 1]_vars

\* apply_gradients has returned for gradients that hold the overwrite-with-gradient
\* group, after one tx.update
C2_Witness ==
    /\ op = "apply_gradients" /\ err = "none"
    /\ calls.update = 1
    /\ OVERWRITE_WITH_GRADIENT \in TopKeys(Get(grads_in))
    /\ Get(st).step = Get(self_after).step + 1

\* C3: the step of a state that descends from create equals the number of
\* apply_gradients applications since create, whatever free_opt_state,
\* init_opt_state, shard_params and save_state calls lie in between.
C3_StepCountsApplications ==
    (origin = "create" /\ st # None) => Get(st).step = n_applied

\* three applications since create, and a save_state of the state they produced
C3_Witness ==
    /\ origin = "create"
    /\ n_applied = 3
    /\ Get(st).step = 3
    /\ op = "save_state"

C6_LoadWithoutOptimizer ==
    [][/\ (op' = "load_state" /\ err' = "none" /\ ~Get(disk').save_optimizer) =>
              Get(st').opt_state = None
       /\ (/\ \/ op = "load_state" /\ op' = "init_opt_state"
              \/ op' = "load_state_init"
           /\ err = "none" /\ err' = "none"
           /\ disk' # None /\ ~Get(disk').save_optimizer
           /\ Get(disk').state.opt_state # None) =>
              LET loaded == Get(st')
                  group == IF OVERWRITE_WITH_GRADIENT \in TopKeys(loaded.params)
                           THEN Subtree(loaded.params, "params") ELSE loaded.params
              IN /\ loaded.opt_state = Some(TxInit(loaded.tx, group))
                 /\ Topology(Get(loaded.opt_state).mu) = Topology(group)
                 /\ calls'.init = 1]_vars

\* a state with optimizer state was saved without it, loaded, and init_opt_state was
\* called on the loaded state
C6_Witness ==
    /\ op = "init_opt_state" /\ err = "none"
    /\ origin = "load_state"
    /\ disk # None
    /\ ~Get(disk).save_optimizer
    /\ Get(disk).state.opt_state # None
    /\ Get(self_after).opt_state = None
    /\ calls.init = 1
    /\ Get(st).opt_state # None

\* C7: free_opt_state returns the state with opt_state None and every other field as
\* it was; init_opt_state returns the state itself, without calling tx.init, when
\* opt_state is present, and otherwise the state with opt_state = tx.init of the
\* parameter subtree; so on a fresh created state free_opt_state then init_opt_state
\* gives back the created opt_state.
C7_FreeAndInitOptState ==
    [][/\ op' = "free_opt_state" =>
              /\ err' = "none"
              /\ st' = Some([Get(st) EXCEPT !.opt_state = None])
       /\ op' = "init_opt_state" =>
              /\ err' = "none"
              /\ IF Get(st).opt_state # None
                 THEN st' = st /\ calls'.init = 0
                 ELSE LET s == Get(st)
                          group == IF OVERWRITE_WITH_GRADIENT \in TopKeys(s.params)
                                   THEN Subtree(s.params, "params") ELSE s.params
                      IN /\ st' = Some([s EXCEPT !.opt_state = Some(TxInit(s.tx, group))])
                         /\ calls'.init = 1
       /\ (op' = "init_opt_state" /\ origin = "create" /\ n_applied = 0) =>
              Get(st').opt_state =
                  Some(TxInit(Get(st).tx,
                              IF OVERWRITE_WITH_GRADIENT \in TopKeys(Get(st).params)
                              THEN Subtree(Get(st).params, "params")
                              ELSE Get(st).params))]_vars

\* init_opt_state has rebuilt the optimizer state that free_opt_state dropped from a
\* fresh created state
C7_Witness ==
    /\ op = "init_opt_state" /\ err = "none"
    /\ origin = "create" /\ n_applied = 0
    /\ Get(self_after).opt_state = None
    /\ calls.init = 1
    /\ Get(st).opt_state # None

\* C8: load returns a state with exactly the supplied step, params and opt_state (a
\* None opt_state stays None, tx.init is not called), and its tx_init holds the keys
\* optimizer, scheduler and steps with the supplied values, or the defaults 'adamw',
\* 'none' and 1e6 for the ones not supplied.
C8_LoadKeepsFields ==
    op = "load" =>
        LET a == Get(call_args)
            s == Get(st)
            supplied == IF a.tx_init = None THEN <<>> ELSE Get(a.tx_init)
            tx_init == Get(s.tx_init)
        IN /\ err = "none"
           /\ s.step = a.step
           /\ s.params = a.params
           /\ s.opt_state = a.opt_state
           /\ calls.init = 0
           /\ s.tx_init # None
           /\ {<<"optimizer">>, <<"scheduler">>, <<"steps">>} \subseteq Keys(tx_init)
           /\ DictGet(tx_init, <<"optimizer">>, None) =
                  DictGet(supplied, <<"optimizer">>, StrV(<<"adamw">>))
           /\ DictGet(tx_init, <<"scheduler">>, None) =
                  DictGet(supplied, <<"scheduler">>, StrV(<<"none">>))
           /\ DictGet(tx_init, <<"steps">>, None) =
                  DictGet(supplied, <<"steps">>, FloatV("1000000.0"))
           /\ \A k \in Keys(supplied) : DictGet(tx_init, k, None) = DictGet(supplied, k, None)

\* load was given no opt_state and no tx_init
C8_Witness ==
    /\ op = "load" /\ err = "none"
    /\ Get(call_args).opt_state = None
    /\ Get(call_args).tx_init = None
    /\ Get(st).opt_state = None

C10_AmbiguousModelTypeFails ==
    (/\ op \in {"load_state", "load_state_init"}
     /\ Get(disk).file.hyperparameters # None
     /\ Cardinality({k \in Keys(Get(Get(disk).file.hyperparameters)) :
                        StartsWith(k, ModelTypePrefix)}) > 1) =>
        err # "none" /\ last_model_type = None

\* C11: for a mapping d with values that are not integers or booleans,
\* unsafe_dict(safe_dict(d)) holds every key of d whose value was encoded, mapped
\* back to its original value, also when the text of the key or of the value holds
\* the separator '_is_'.
C11_DecodeRecoversEncoded ==
    dict_ops = <<"safe_dict", "unsafe_dict">> =>
        \A i \in 1..Len(dictionary_in) :
            ~IsIntOrBool(dictionary_in[i].v) =>
                /\ HasKey(dictionary, dictionary_in[i].k)
                /\ DictGet(dictionary, dictionary_in[i].k, None) = dictionary_in[i].v

\* C12: after safe_dict(d) every entry of d whose value is not an integer or boolean
\* is replaced by the key '<name>_is_<value>' with value 1 and its own key is absent,
\* every entry whose value is an integer or boolean is unchanged, every value of the
\* result is an integer or boolean, and a second safe_dict changes nothing.
C12_SafeDictEncodesEveryEntry ==
    dict_ops = <<"safe_dict">> =>
        /\ \A i \in 1..Len(dictionary_in) :
               LET e == dictionary_in[i]
               IN IF IsIntOrBool(e.v)
                  THEN HasKey(dictionary, e.k) /\ DictGet(dictionary, e.k, None) = e.v
                  ELSE /\ DictGet(dictionary, EncodedKey(e.k, e.v), None) = One
                       /\ ~HasKey(dictionary, e.k)
        /\ \A i \in 1..Len(dictionary) : IsIntOrBool(dictionary[i].v)
        /\ SafeDict(dictionary) = dictionary

\* C13 (as amended): shard_params needs at least one source of the partition
\* specification among explicit shard functions, explicit rules and the rule set of
\* the module configuration: with none it raises EasyDelRuntimeError and returns no
\* state; with one or more it does not raise for the number of sources and goes on
\* with one of those available (failing later only for a missing mesh).
C13_ShardParamsNeedsASource ==
    op = "shard_params" =>
        LET a == Get(call_args)
            self == Get(self_after)
            available == {x \in {"shard_fns", "rules", "module_config"} :
                             \/ x = "shard_fns" /\ a.shard_fns # None
                             \/ x = "rules" /\ a.rules # None
                             \/ x = "module_config" /\ self.module_config # None}
        IN IF available = {}
           THEN err = "EasyDelRuntimeError" /\ st = self_after
           ELSE /\ shard_src \in available
                /\ \/ err = "none"
                   \/ err = "AttributeError" /\ a.mesh = None /\ self.module_config = None

\* C13 as stated: exactly one source is required, so shard_params does not go on when
\* more than one is available
C13_ExactlyOneSource ==
    op = "shard_params" =>
        LET a == Get(call_args)
            available == {x \in {"shard_fns", "rules", "module_config"} :
                             \/ x = "shard_fns" /\ a.shard_fns # None
                             \/ x = "rules" /\ a.rules # None
                             \/ x = "module_config" /\ Get(self_after).module_config # None}
        IN Cardinality(available) # 1 => err # "none"

\* shard_params has returned a state for a call with explicit shard functions and
\* explicit rules on a state that carries a module configuration
C13_Witness ==
    /\ op = "shard_params" /\ err = "none"
    /\ Get(call_args).shard_fns # None
    /\ Get(call_args).rules # None
    /\ Get(self_after).module_config # None
    /\ shard_src = "rules"

\* C14: from_pretrained called with init_optimizer_state and free_optimizer_state
\* both true raises EasyDelRuntimeError before any model or checkpoint is loaded or
\* downloaded, and returns no state.
C14_ConflictingFlagsRaiseFirst ==
    (/\ op = "from_pretrained"
     /\ Get(call_args).init_optimizer_state
     /\ Get(call_args).free_optimizer_state) =>
        /\ err = "EasyDelRuntimeError"
        /\ calls.fetch = 0
        /\ calls.init = 0
        /\ st = None

\* from_pretrained has been called with both flags and the name of a checkpoint
\* file that would load
C14_Witness ==
    /\ op = "from_pretrained"
    /\ Get(call_args).init_optimizer_state
    /\ Get(call_args).free_optimizer_state
    /\ Get(call_args).filename # None
    /\ LoadState(Get(call_args).hub, TRUE).err = "none"
    /\ err = "EasyDelRuntimeError"

\* how many of the three sources (model parameters, state, checkpoint path) a
\* run was given
SourcesSupplied(a) ==
    Cardinality({i \in 1..3 : <<a.model_parameters, a.state, a.checkpoint_path>>[i] # None})

Terminal == pc \in {"returned", "raised"}

C16_StopsAtMaxAndReturns ==
    LET a == Get(arguments)
    IN /\ \A i \in 1..Len(steps_run) : steps_run[i].current_step < a.max_training_steps
       /\ (/\ Terminal /\ ended = "completed" /\ ~a.do_eval
           /\ current_step >= a.max_training_steps) =>
              pc = "returned" /\ output # None

\* C17: with save_steps = N and no LoRA, the milestone checkpoints are exactly
\* those of the train steps whose current_step is a multiple of N, each holding the
\* state its train step returned.
C17_SavesFollowTrainSteps ==
    LET a == Get(arguments)
    IN (pc # "start" /\ a.save_steps # None /\ a.rapture = None) =>
           /\ \A i \in 1..Len(saves) : saves[i].milestone =>
                  \E j \in 1..Len(steps_run) :
                      /\ steps_run[j].current_step = saves[i].current_step
                      /\ steps_run[j].state = saves[i].state
           /\ Terminal =>
                  \A j \in 1..Len(steps_run) :
                      steps_run[j].current_step % Get(a.save_steps) = 0 =>
                          \E i \in 1..Len(saves) :
                              /\ saves[i].milestone
                              /\ saves[i].current_step = steps_run[j].current_step

LastSaves == {i \in 1..Len(saves) : ~saves[i].milestone}

\* C18 (as the code has it): once the loop is over, a run with do_last_save and
\* without save_steps has written exactly one checkpoint after the loop, of the
\* final state, as the last one written; a run with save_steps configured, or
\* without do_last_save, has written none after the loop.
C18_LastSaveWithoutSaveSteps ==
    LET a == Get(arguments)
    IN output # None =>
           IF a.save_steps = None /\ a.do_last_save
           THEN /\ LastSaves = {Len(saves)}
                /\ saves[Len(saves)].state = Get(output).state
                /\ saves[Len(saves)].state = Get(sharded_state)
           ELSE LastSaves = {}

\* C18: once the loop is over, a run with do_last_save has written exactly one
\* checkpoint of the final state after the loop, whether or not save_steps is
\* configured.
C18_LastSaveAlways ==
    (output # None /\ Get(arguments).do_last_save) =>
        /\ Cardinality(LastSaves) = 1
        /\ \A i \in LastSaves : saves[i].state = Get(output).state

\* a run with do_last_save and without save_steps has returned, its one
\* checkpoint written after the loop
C18_Witness ==
    /\ pc = "returned"
    /\ Get(arguments).do_last_save
    /\ Get(arguments).save_steps = None
    /\ Len(saves) = 1
    /\ ~saves[1].milestone

\* C19: eval is called at most once in a run, only with do_eval and after the
\* last train step; it yields one record per batch of the evaluation data, in
\* order, the k-th with eval_step = k, and ends when the data is exhausted.
C19_EvalOncePerBatch ==
    LET a == Get(arguments)
    IN /\ eval_calls <= 1
       /\ eval_calls = 1 => a.do_eval /\ pc \notin {"start", "loop", "train_step", "save_check", "saving"}
       /\ \A k \in 1..Len(eval_records) :
              eval_records[k].eval_step = k /\ eval_records[k].batch = k
       /\ (/\ eval_calls = 1 /\ pc \notin {"eval", "abandoned"}
           /\ eval_ended \notin {"interrupt", "closed"}
           /\ a.dataloader_eval # None /\ a.step_start_point # None) =>
              Len(eval_records) = Len(Get(a.dataloader_eval))

\* the state the last completed train step returned, or the initial one
LastCompletedState ==
    IF steps_run = <<>> THEN sharded_state ELSE Some(steps_run[Len(steps_run)].state)

\* C20: after a timeout or an interrupt in the loop no train step is invoked, no
\* exception leaves train, and train returns an output holding the state of the
\* last completed train step.
C20_InterruptReturnsLastState ==
    (ended \in {"interrupt", "timeout"} /\ Terminal) =>
        /\ pc = "returned"
        /\ train_err = "none"
        /\ output # None
        /\ Some(Get(output).state) = LastCompletedState

\* C23: apply_gradients called with a gradient tree whose topology differs from
\* that of the parameter tree raises, returns no state and leaves the state it was
\* called on as it was.
C23_MismatchedGradientsFail ==
    [][(op' = "apply_gradients" /\ Topology(Get(grads_in')) # Topology(Get(st).params)) =>
        /\ err' # "none"
        /\ st' = st
        /\ self_after' = st]_vars

\* C27 (as the code has it): apply_gradients hands tx.update the 'params' subtrees
\* exactly when the gradient tree holds the overwrite-with-gradient group; it only
\* returns when the gradients hold the group if and only if the parameters do, and
\* then the returned params are the updated 'params' subtree plus the gradient's
\* overwrite-with-gradient group. For a state that descends from create, the
\* optimizer state keeps the topology of params['params'] across apply_gradients,
\* free_opt_state and init_opt_state.
C27_OverwriteGroupFollowsGradients ==
    [][/\ (op' \in {"apply_gradients", "train_step"} /\ err' = "none") =>
            LET s == Get(st)
                grads == Get(grads_in')
                in_grads == OVERWRITE_WITH_GRADIENT \in TopKeys(grads)
                in_params == OVERWRITE_WITH_GRADIENT \in TopKeys(s.params)
                p == Subtree(s.params, "params")
                u == TxUpdate(s.tx, Subtree(grads, "params"), Get(s.opt_state), p)
            IN /\ in_grads = in_params
               /\ in_grads =>
                      Get(st').params =
                          Merge(Under("params", ApplyUpdates(p, u.updates)),
                                Under(OVERWRITE_WITH_GRADIENT,
                                      Subtree(grads, OVERWRITE_WITH_GRADIENT)))
       /\ (/\ st' # None /\ origin' = "create"
           /\ Get(st').opt_state # None
           /\ OVERWRITE_WITH_GRADIENT \in TopKeys(Get(st').params)) =>
              Topology(Get(Get(st').opt_state).mu) = Topology(Subtree(Get(st').params, "params"))
      ]_vars

\* C27: whenever the params of the state hold the overwrite-with-gradient group,
\* the trees apply_gradients hands to tx.update are the 'params' subtrees.
C27_SubtreesWheneverParamsHoldGroup ==
    [][(/\ op' = "apply_gradients" /\ calls'.update > 0
        /\ OVERWRITE_WITH_GRADIENT \in TopKeys(Get(st).params)) =>
            /\ UpdateArgs(Get(st), Get(grads_in')).params_with_opt =
                   Subtree(Get(st).params, "params")
            /\ UpdateArgs(Get(st), Get(grads_in')).grads_with_opt =
                   Subtree(Get(grads_in'), "params")]_vars

\* a second apply_gradients has returned on a state created with the
\* overwrite-with-gradient group, for gradients that hold the group
C27_Witness ==
    /\ op = "apply_gradients" /\ err = "none"
    /\ origin = "create"
    /\ Get(st).step = 2
    /\ calls.update = 1
    /\ OVERWRITE_WITH_GRADIENT \in TopKeys(Get(st).params)
    /\ OVERWRITE_WITH_GRADIENT \in TopKeys(Get(grads_in))

\* C30: a state created with a tx_init that names an optimizer, saved and loaded
\* again (load_state hands the stored tx_init to load), comes back with the
\* gradient transformation of that optimizer.
C30_OptimizerSurvivesCreateLoad ==
    (/\ op \in {"load_state", "load_state_init"} /\ err = "none"
     /\ origin = "load_state"
     /\ Get(disk).state.tx_init # None
     /\ HasKey(Get(Get(disk).state.tx_init), EncodedKey(<<"optimizer">>, StrV(<<"lion">>)))
     /\ Get(disk).state.tx = "lion") =>
        Get(st).tx = "lion"

\* C29: load_state returns a state whenever the model type of the record resolves,
\* also for a record without module_config_args (key absent or null); the state's
\* module_config is rebuilt from the module_config_args when they are present and
\* is None otherwise, and its module_config_args is None.
C29_LoadStateModuleConfig ==
    LET loads == op \in {"load_state", "load_state_init"}
        pretrained == /\ op = "from_pretrained"
                      /\ Get(call_args).filename # None
                      /\ ~ConflictingFlags(Get(call_args).free_optimizer_state,
                                           Get(call_args).init_optimizer_state)
        file == IF loads THEN Get(disk).file ELSE Get(call_args).hub
        stored == IF "module_config_args" \in DOMAIN file
                  THEN file.module_config_args ELSE None
    IN ((loads \/ pretrained) /\ file.hyperparameters # None
        /\ ~GetModulesByTypeFails(GetModelType(Get(file.hyperparameters)))) =>
           /\ err = "none"
           /\ Get(st).module_config_args = None
           /\ Get(st).module_config = stored

\* C21: no checkpoint write is left started and unfinished by an interrupt or a
\* timeout: once train is below its loop, every write that was started has gone
\* through.
C21_NoUnfinishedWrite ==
    pc \in {"after_loop", "eval", "finish", "returned", "raised"} =>
        \A i \in 1..Len(saves) : saves[i].complete

\* C22: a KeyboardInterrupt that arrives while eval works on a batch is caught in
\* eval: the sequence ends and its caller goes on, no exception leaves eval, the
\* records yielded so far and the model state are what they were.
C22_EvalCatchesInterrupt ==
    [][(pc = "eval" /\ eval_ended = "none" /\ eval_ended' = "interrupt") =>
          /\ pc' \in {"finish", "returned"}
          /\ train_err' = "none"
          /\ eval_records' = eval_records
          /\ \A k \in 1..Len(eval_records') : eval_records'[k].eval_step = k
          /\ sharded_state' = sharded_state]_vars

\* eval was interrupted on its second batch, after it had yielded a record
C22_Witness ==
    /\ eval_ended = "interrupt"
    /\ Len(eval_records) = 1
    /\ eval_step = 1
    /\ pc = "returned"
    /\ train_err = "none"

\* C24: every sharded operation of train, initialize_state and eval runs with the
\* mesh context entered, and the mesh context is left once train or eval is over:
\* after a return, an exception, and when the caller of eval has stopped asking
\* for records.
C24_MeshScoped ==
    /\ \A o \in sharded_ops : o.mesh >= 1
    /\ pc \in {"returned", "raised", "abandoned", "closed"} => mesh_depth = 0

\* C25: every run of train leaves the loop as completed, timed out or
\* interrupted, and every checkpoint write of the loop is followed by the loop or
\* by the end of the loop.
C25_LoopEndsInOneOfThree ==
    /\ (pc = "loop") ~> (ended \in {"completed", "timeout", "interrupt"})
    /\ (pc = "saving") ~> (pc \in {"loop", "after_loop"})

\* C26: with do_eval and without dataloader_eval, train raises before it runs a
\* train step or writes a checkpoint, eval called by itself raises at the call
\* and hands out no sequence, and neither returns normally.
C26_MissingEvalDataRaisesFirst ==
    LET a == Get(arguments)
    IN (a.do_eval /\ a.dataloader_eval = None) =>
           /\ steps_run = <<>>
           /\ saves = <<>>
           /\ ~(a.entry = "eval" /\ pc = "eval")
           /\ pc # "returned"

RECURSIVE SumOfLosses(_, _)
\* the sum of the losses of the first n of a sequence of losses
SumOfLosses(losses, n) == IF n = 0 THEN 0 ELSE SumOfLosses(losses, n - 1) + losses[n]

\* sum / steps is the mean of the first n losses
IsMeanOf(m, losses, n) == m.steps # 0 /\ m.sum * n = SumOfLosses(losses, n) * m.steps

\* C28: the mean_loss computed after a train step is the sum of the losses of the
\* train steps of the run divided by their number, and the eval_mean_loss of the
\* k-th record of eval is the mean of the losses of the first k batches.
C28_MeansAreMeans ==
    /\ mean_loss # None =>
           IsMeanOf(Get(mean_loss), [j \in 1..Len(steps_run) |-> steps_run[j].loss],
                    Len(steps_run))
    /\ \A k \in 1..Len(eval_records) :
           IsMeanOf(eval_records[k].eval_mean_loss,
                    [j \in 1..k |-> LossOf(Get(Get(arguments).dataloader_eval)[j])], k)

\* C31: when shard_params is called with explicit shard functions, the functions
\* applied to the leaves are the supplied ones, whether or not the state carries a
\* module configuration; the rules and the rule set of the module configuration are
\* the source only when no shard functions are supplied.
C31_ExplicitShardFnsApplied ==
    (op = "shard_params" /\ err = "none") =>
        /\ Get(call_args).shard_fns # None => shard_src = "shard_fns"
        /\ shard_src \in {"rules", "module_config"} => Get(call_args).shard_fns = None

\* C32: initialize_state assigns to no field of a state, neither of the one its
\* caller supplied nor of the one it has just initialized (an EasyDelState is frozen
\* and answers an assignment with FrozenInstanceError): a run that supplies a state
\* alone, or that initializes one afresh, gets its sharded state.
C32_NoAssignmentToState ==
    LET a == Get(arguments)
    IN (pc # "start" /\ a.entry = "train") =>
           /\ train_err # "FrozenInstanceError"
           /\ (SourcesSupplied(a) = 1 /\ (a.state # None \/ ~a.finetune)) =>
                  sharded_state # None

\* C33: a run of train on the parameters of a model (a state at step 0) without
\* skipped steps, with at least max_training_steps batches, that is neither timed
\* out nor interrupted, applies max_training_steps gradient updates and returns a
\* state whose step is max_training_steps.
C33_TrainsMaxTrainingSteps ==
    LET a == Get(arguments)
    IN (/\ Terminal /\ a.entry = "train" /\ ended \notin {"timeout", "interrupt"}
        /\ <<a.model_parameters, a.state, a.checkpoint_path, a.rapture>>
               = <<Some(NestedParams), None, None, None>>
        /\ a.finetune /\ ~a.do_eval
        /\ a.step_start_point = Some(0)
        /\ a.num_train_epochs * Len(a.dataloader_train) >= a.max_training_steps) =>
           /\ pc = "returned"
           /\ Len(steps_run) = a.max_training_steps
           /\ Get(output).state.step = a.max_training_steps

C35_ReturnsWithoutCheckpoint ==
    (/\ Terminal /\ Get(arguments).entry = "train" /\ ~Get(arguments).do_eval
     /\ output # None /\ saves = <<>>) =>
        pc = "returned" /\ train_err = "none"

\* C36: what the record of metrics of a train step reads has been assigned before:
\* a train step that has run is not followed by UnboundLocalError for the value
\* stored under "accelerators".
C36_MetricsReadAssignedValues ==
    [][(pc = "train_step" /\ steps_run' # steps_run) =>
          train_err' # "UnboundLocalError"]_vars

\* C37: the divisor of every running mean, current_step - step_start_point, is a
\* positive integer: in train after each train step, in eval for each batch, and
\* also without a step_start_point; no mean fails with TypeError or
\* ZeroDivisionError.
C37_DivisorIsPositive ==
    /\ mean_loss # None => Get(mean_loss).steps > 0
    /\ \A k \in 1..Len(eval_records) : eval_records[k].eval_mean_loss.steps > 0
    /\ train_err \notin {"TypeError", "ZeroDivisionError"}

\* C38: while current_step is below step_start_point train runs no train step,
\* leaves the state as it is and writes no checkpoint: every train step and every
\* milestone checkpoint is at a current_step of step_start_point or more.
C38_SkippedBatchesLeaveNoTrace ==
    LET a == Get(arguments)
    IN (a.entry = "train" /\ a.step_start_point # None) =>
           /\ \A j \in 1..Len(steps_run) :
                  steps_run[j].current_step >= Get(a.step_start_point)
           /\ \A i \in 1..Len(saves) :
                  saves[i].milestone => saves[i].current_step >= Get(a.step_start_point)

\* C39: a run whose loop was ended by the timeout or by an interrupt writes no
\* checkpoint after the loop and calls no eval.
C39_NothingAfterInterrupt ==
    ended \in {"timeout", "interrupt"} => LastSaves = {} /\ eval_calls = 0

\* C40: create leaves the tx_init mapping and the module_config object of its
\* caller as they were: after create has returned they have the keys and values
\* they had before the call.
C40_CreateKeepsCallerInputs ==
    (op = "create" /\ err = "none") =>
        /\ Get(inputs_after).tx_init = Get(call_args).tx_init
        /\ Get(inputs_after).module_config = Get(call_args).module_config

====
